---- MODULE Spec2Model ----
(***************************************************************************)
(* A model of qti-html-renderer (src/src/index.ts): the scoring renderer,  *)
(* the report renderer with its three string passes, the response          *)
(* applicator and the image source rewriter.                               *)
(*                                                                         *)
(* Representation.                                                         *)
(*  - A string is a sequence of one-character strings.                     *)
(*  - An attribute value is a sequence of whitespace-separated words; a    *)
(*    word is a pair <<prefix, rest>> standing for "prefix-rest" (or for   *)
(*    "rest" when prefix is ""), so <<>> is the empty string.  Words carry *)
(*    no character that escapeHtml rewrites.                               *)
(*  - null / undefined is <<>> and a present value v is <<v>> (None/Some). *)
(*  - A DOM node is a record; an Element handle is the node's path from    *)
(*    the document element (a sequence of child positions).                *)
(*  - Serialized HTML is a sequence of tokens: a character, an open tag    *)
(*    with its attributes, a close tag, or a void tag.                     *)
(*  - heap holds the blank counter objects of renders in progress and      *)
(*    frames the local variables of each such render; a call that runs to  *)
(*    its end in one step leaves both as they are.                         *)
(***************************************************************************)
EXTENDS Integers, Sequences, FiniteSets, TLC

VARIABLES pc, call, result, log, heap, frames

vars == <<pc, call, result, log, heap, frames>>

---------------------------------------------------------------------------
(* Generic helpers *)

None == <<>>

Some(v) == <<v>>

OrElse(opt, d) == IF opt = None THEN d ELSE opt[1]

RECURSIVE Flatten(_)
Flatten(ss) == IF ss = <<>> THEN <<>> ELSE Head(ss) \o Flatten(Tail(ss))

SeqUpTo(S, n) == UNION {[1..k -> S] : k \in 0..n}

Max(a, b) == IF a >= b THEN a ELSE b

W(r) == <<"", r>>

PW(p, r) == <<p, r>>

Attr(name, val) == [name |-> name, val |-> val]

---------------------------------------------------------------------------
(* DOM *)

El(name, attrs, kids) ==
  [type |-> "el", name |-> name, attrs |-> attrs, text |-> <<>>, kids |-> kids]

Txt(chars) ==
  [type |-> "text", name |-> "#text", attrs |-> <<>>, text |-> chars, kids |-> <<>>]

RECURSIVE NodeAt(_, _)
NodeAt(root, path) ==
  IF path = <<>> THEN root ELSE NodeAt(root.kids[Head(path)], Tail(path))

childNodes(root, path) ==
  [i \in 1..Len(NodeAt(root, path).kids) |-> path \o <<i>>]

getAttribute(el, name) ==
  LET m == SelectSeq(el.attrs, LAMBDA a : a.name = name)
  IN IF m = <<>> THEN None ELSE Some(Head(m).val)

RECURSIVE textContent(_)
textContent(node) ==
  IF node.type = "text" THEN node.text
  ELSE Flatten([i \in 1..Len(node.kids) |-> textContent(node.kids[i])])

\* Element descendants of the node at path, in document order (the node
\* itself excluded), as absolute paths.
RECURSIVE descendants(_, _)
descendants(root, path) ==
  LET n == NodeAt(root, path)
  IN Flatten([i \in 1..Len(n.kids) |->
       IF n.kids[i].type = "el"
       THEN <<path \o <<i>>>> \o descendants(root, path \o <<i>>)
       ELSE <<>>])

\* Names in the model are local names, so the namespace-aware lookup and its
\* fallback select the same elements.
getElementsByLocalName(root, path, localName) ==
  LET withNamespace == SelectSeq(descendants(root, path),
                                 LAMBDA p : NodeAt(root, p).name = localName)
  IN IF Len(withNamespace) > 0 THEN withNamespace
     ELSE SelectSeq(descendants(root, path),
                    LAMBDA p : NodeAt(root, p).name = localName)

---------------------------------------------------------------------------
(* Strings *)

IsSpace(c) == c \in {" ", "\n", "\r", "\t"}

RECURSIVE trimStart(_)
trimStart(s) ==
  IF s # <<>> /\ IsSpace(Head(s)) THEN trimStart(Tail(s)) ELSE s

RECURSIVE trimEnd(_)
trimEnd(s) ==
  IF s # <<>> /\ IsSpace(s[Len(s)]) THEN trimEnd(SubSeq(s, 1, Len(s) - 1)) ELSE s

trim(s) == trimEnd(trimStart(s))

replaceAll(s, c, rep) ==
  Flatten([i \in 1..Len(s) |-> IF s[i] = c THEN rep ELSE <<s[i]>>])

escapeHtml(value) ==
  replaceAll(
    replaceAll(
      replaceAll(
        replaceAll(
          replaceAll(value, "&", <<"&", "a", "m", "p", ";">>),
          "<", <<"&", "l", "t", ";">>),
        ">", <<"&", "g", "t", ";">>),
      "\"", <<"&", "q", "u", "o", "t", ";">>),
    "'", <<"&", "#", "3", "9", ";">>)

---------------------------------------------------------------------------
(* HTML tokens *)

Ch(c) == [k |-> "ch", v |-> c, attrs |-> <<>>]

Open(name, attrs) == [k |-> "open", v |-> name, attrs |-> attrs]

Close(name) == [k |-> "close", v |-> name, attrs |-> <<>>]

Void(name, attrs) == [k |-> "void", v |-> name, attrs |-> attrs]

Chars(s) == [i \in 1..Len(s) |-> Ch(s[i])]

---------------------------------------------------------------------------
(* Scoring renderer *)

defaultBlankRenderer(index) ==
  <<Void("input", <<Attr("class", <<W("qti-blank-input")>>),
                    Attr("data-blank", <<W(ToString(index))>>),
                    Attr("type", <<W("text")>>),
                    Attr("size", <<W("6")>>),
                    Attr("disabled", <<>>),
                    Attr("aria-label", <<W("blank"), W(ToString(index))>>)>>)>>

\* The blankRenderer of the README's example of a customised render.
customBlankRenderer(index) ==
  <<Void("input", <<Attr("class", <<W("my-blank")>>),
                    Attr("data-blank", <<W(ToString(index))>>)>>)>>

\* The four characters of the placeholder text stand as "(ki)" for the
\* source's full-width parenthesised label.
defaultExtendedTextRenderer ==
  <<Open("span", <<Attr("class", <<W("qti-extended-placeholder")>>)>>),
    Ch("("), Ch("k"), Ch("i"), Ch(")"),
    Close("span")>>

defaultScoringOptions ==
  [blankRenderer |-> "default",
   extendedTextRenderer |-> "default",
   choiceListClassName |-> <<W("qti-choice-list")>>,
   preWithBlanksClassName |-> <<W("qti-pre-with-blanks")>>]

blankRenderer(options, index) ==
  IF options.blankRenderer = "default" THEN defaultBlankRenderer(index)
  ELSE customBlankRenderer(index)

\* Elements the switch maps to one HTML tag with no attribute.
PlainTag(name) ==
  CASE name = "qti-p" -> "p"
    [] name = "qti-h3" -> "h3"
    [] name = "qti-h4" -> "h4"
    [] name = "qti-h5" -> "h5"
    [] name = "qti-h6" -> "h6"
    [] name = "qti-em" -> "em"
    [] name = "qti-strong" -> "strong"
    [] name = "qti-del" -> "del"
    [] name = "qti-blockquote" -> "blockquote"
    [] name = "qti-ul" -> "ul"
    [] name = "qti-li" -> "li"
    [] name = "qti-table" -> "table"
    [] name = "qti-thead" -> "thead"
    [] name = "qti-tbody" -> "tbody"
    [] name = "qti-tr" -> "tr"
    [] name = "qti-th" -> "th"
    [] name = "qti-td" -> "td"
    [] OTHER -> ""

\* ` name="value"` for an attribute the code emits only when it is truthy.
OptAttr(el, name) ==
  IF OrElse(getAttribute(el, name), <<>>) # <<>>
  THEN <<Attr(name, OrElse(getAttribute(el, name), <<>>))>>
  ELSE <<>>

IsWsTok(t) == t.k = "ch" /\ IsSpace(t.v)

\* inner.match(/^\s+/)?.[0] ?? '' : the leading run of whitespace characters.
RECURSIVE leadingSpace(_)
leadingSpace(html) ==
  IF html # <<>> /\ IsWsTok(Head(html))
  THEN <<Head(html)>> \o leadingSpace(Tail(html))
  ELSE <<>>

\* inner.match(/\s+$/)?.[0] ?? '' : the trailing run of whitespace characters.
RECURSIVE trailingSpace(_)
trailingSpace(html) ==
  IF html # <<>> /\ IsWsTok(html[Len(html)])
  THEN trailingSpace(SubSeq(html, 1, Len(html) - 1)) \o <<html[Len(html)]>>
  ELSE <<>>

HasLineBreak(run) == \E i \in 1..Len(run) : run[i].v \in {"\n", "\r"}

\* A plausible slip: a run is dropped whether or not it holds a line break.
trimInnerAnyRun(inner, trimS, trimE) ==
  LET leading == leadingSpace(inner)
      a == IF trimS THEN SubSeq(inner, Len(leading) + 1, Len(inner)) ELSE inner
      trailing == trailingSpace(a)
  IN IF trimE THEN SubSeq(a, 1, Len(a) - Len(trailing)) ELSE a

trimInner(inner, trimS, trimE) ==
  LET leading == leadingSpace(inner)
      a == IF trimS /\ leading # <<>> /\ ~HasLineBreak(leading)
           THEN SubSeq(inner, Len(leading) + 1, Len(inner))
           ELSE inner
      trailing == trailingSpace(a)
  IN IF trimE /\ trailing # <<>> /\ ~HasLineBreak(trailing)
     THEN SubSeq(a, 1, Len(a) - Len(trailing))
     ELSE a

isBlank(root, child) ==
  /\ NodeAt(root, child).type = "el"
  /\ NodeAt(root, child).name = "qti-text-entry-interaction"

significantNodes(root, path) ==
  SelectSeq(childNodes(root, path),
            LAMBDA c : \/ NodeAt(root, c).type # "text"
                       \/ trim(textContent(NodeAt(root, c))) # <<>>)

\* A plausible slip: the counter is read before it is incremented.
nextBlankIndexStale(counter) == counter

\* ++blankCounter.value
nextBlankIndex(counter) == counter + 1

\* A plausible slip: indices counted from an initial value of 1.
newBlankCounterFromOne == [html |-> <<>>, counter |-> 1, calls |-> <<>>]

\* const blankCounter = { value: 0 }, with nothing rendered yet.
newBlankCounter == [html |-> <<>>, counter |-> 0, calls |-> <<>>]

\* The renderer threads st = [html, counter, calls]: the HTML emitted so far,
\* blankCounter.value, and the blankRenderer invocations made so far (each
\* with the element it was made for).
RECURSIVE renderNodeForScoring(_, _, _, _, _, _)
RECURSIVE renderNodes(_, _, _, _, _, _)
RECURSIVE renderPreChildren(_, _, _, _, _)
RECURSIVE renderChoices(_, _, _, _)

renderNodes(root, paths, options, st, inPre, preserveWhitespace) ==
  IF paths = <<>> THEN st
  ELSE renderNodes(root, Tail(paths), options,
         renderNodeForScoring(root, Head(paths), options, st, inPre, preserveWhitespace),
         inPre, preserveWhitespace)

renderCodeInPre(root, codeEl, trimS, trimE, options, st) ==
  LET inner == renderNodes(root, childNodes(root, codeEl), options,
                           [st EXCEPT !.html = <<>>], TRUE, TRUE)
  IN [inner EXCEPT !.html = st.html \o <<Open("code", <<>>)>>
                              \o trimInner(inner.html, trimS, trimE)
                              \o <<Close("code")>>]

renderPreChildren(root, sig, index, options, st) ==
  IF index > Len(sig) THEN st
  ELSE LET child == sig[index]
           prevBlank == index > 1 /\ isBlank(root, sig[index - 1])
           nextBlank == index < Len(sig) /\ isBlank(root, sig[index + 1])
           next == IF /\ NodeAt(root, child).type = "el"
                      /\ NodeAt(root, child).name = "qti-code"
                   THEN renderCodeInPre(root, child, prevBlank, nextBlank, options, st)
                   ELSE renderNodeForScoring(root, child, options, st, TRUE, FALSE)
       IN renderPreChildren(root, sig, index + 1, options, next)

renderChoices(root, choices, options, st) ==
  IF choices = <<>> THEN st
  ELSE LET choice == Head(choices)
           id == OrElse(getAttribute(NodeAt(root, choice), "identifier"), <<>>)
           opened == [st EXCEPT !.html = @ \o <<Open("li", <<Attr("data-choice", id)>>)>>]
           text == renderNodes(root, childNodes(root, choice), options, opened, FALSE, FALSE)
       IN renderChoices(root, Tail(choices), options,
                        [text EXCEPT !.html = @ \o <<Close("li")>>])

renderNodeForScoring(root, path, options, st, inPre, preserveWhitespace) ==
  LET node == NodeAt(root, path)
      name == node.name
      emit(s, toks) == [s EXCEPT !.html = @ \o toks]
      renderChildren(s, nextInPre, nextPreserve) ==
        renderNodes(root, childNodes(root, path), options, s, nextInPre, nextPreserve)
      wrap(tag, attrs, nextInPre, nextPreserve) ==
        emit(renderChildren(emit(st, <<Open(tag, attrs)>>), nextInPre, nextPreserve),
             <<Close(tag)>>)
  IN
  IF node.type = "text" THEN
    IF inPre /\ ~preserveWhitespace /\ trim(node.text) = <<>> THEN st
    ELSE emit(st, Chars(escapeHtml(node.text)))
  ELSE IF node.type # "el" THEN st
  ELSE
    CASE PlainTag(name) # "" -> wrap(PlainTag(name), <<>>, inPre, preserveWhitespace)
      [] name = "qti-a" ->
           wrap("a", OptAttr(node, "href") \o OptAttr(node, "title"),
                inPre, preserveWhitespace)
      [] name = "qti-code" -> wrap("code", <<>>, inPre, TRUE)
      [] name = "qti-pre" ->
           LET sig == significantNodes(root, path)
               hasBlank == \E i \in 1..Len(sig) : isBlank(root, sig[i])
               classAttr == IF hasBlank
                            THEN <<Attr("class", options.preWithBlanksClassName)>>
                            ELSE <<>>
           IN emit(renderPreChildren(root, sig, 1, options,
                                     emit(st, <<Open("pre", classAttr)>>)),
                   <<Close("pre")>>)
      [] name = "qti-ol" -> wrap("ol", OptAttr(node, "start"), inPre, preserveWhitespace)
      [] name = "qti-hr" -> emit(st, <<Void("hr", <<>>)>>)
      [] name = "qti-img" ->
           emit(st, <<Void("img",
                  <<Attr("src", OrElse(getAttribute(node, "src"), <<>>)),
                    Attr("alt", OrElse(getAttribute(node, "alt"), <<>>))>>
                  \o OptAttr(node, "title"))>>)
      [] name = "qti-text-entry-interaction" ->
           LET idx == nextBlankIndex(st.counter)
           IN [html |-> st.html \o blankRenderer(options, idx),
               counter |-> idx,
               calls |-> Append(st.calls, [index |-> idx, el |-> path])]
      [] name = "qti-extended-text-interaction" ->
           emit(st, defaultExtendedTextRenderer)
      [] name = "qti-choice-interaction" ->
           LET choices == getElementsByLocalName(root, path, "qti-simple-choice")
           IN emit(renderChoices(root, choices, options,
                     emit(st, <<Open("ol", <<Attr("class", options.choiceListClassName)>>)>>)),
                   <<Close("ol")>>)
      [] name = "qti-rubric-block" -> st
      [] OTHER -> renderChildren(st, inPre, preserveWhitespace)

---------------------------------------------------------------------------
(* Rubric and choice extraction *)

IsDigit(c) == c \in {"0", "1", "2", "3", "4", "5", "6", "7", "8", "9"}

DigitValue(c) ==
  CASE c = "0" -> 0 [] c = "1" -> 1 [] c = "2" -> 2 [] c = "3" -> 3 [] c = "4" -> 4
    [] c = "5" -> 5 [] c = "6" -> 6 [] c = "7" -> 7 [] c = "8" -> 8 [] c = "9" -> 9

\* The longest run of digits at the head of s: what \d+ takes.
RECURSIVE digitRun(_)
digitRun(s) ==
  IF s # <<>> /\ IsDigit(Head(s)) THEN <<Head(s)>> \o digitRun(Tail(s)) ELSE <<>>

RECURSIVE digitsToNat(_)
digitsToNat(ds) ==
  IF ds = <<>> THEN 0
  ELSE 10 * digitsToNat(SubSeq(ds, 1, Len(ds) - 1)) + DigitValue(ds[Len(ds)])

RECURSIVE stripZeros(_)
stripZeros(ds) ==
  IF ds # <<>> /\ ds[Len(ds)] = "0" THEN stripZeros(SubSeq(ds, 1, Len(ds) - 1)) ELSE ds

\* Number.parseFloat of \d+(\.\d+)? : the decimal n * 10^-e, in lowest terms of e.
parseFloat(whole, fraction) ==
  [n |-> digitsToNat(whole \o stripZeros(fraction)), e |-> Len(stripZeros(fraction))]

Zero == [n |-> 0, e |-> 0]

\* trimmed.match(/^\[(\d+(?:\.\d+)?)\]\s*(.*)$/) : None, or Some of the two groups.
\* "." matches no line terminator and "$" only the end of the string, so the
\* text after the marker's white space must hold no line break.
matchCriterion(trimmed) ==
  IF trimmed = <<>> \/ Head(trimmed) # "[" THEN None
  ELSE
    LET afterOpen == Tail(trimmed)
        whole == digitRun(afterOpen)
        afterWhole == SubSeq(afterOpen, Len(whole) + 1, Len(afterOpen))
        fraction == IF afterWhole # <<>> /\ Head(afterWhole) = "."
                    THEN digitRun(Tail(afterWhole))
                    ELSE <<>>
        afterNumber == IF fraction # <<>>
                       THEN SubSeq(afterWhole, Len(fraction) + 2, Len(afterWhole))
                       ELSE afterWhole
    IN IF whole = <<>> \/ afterNumber = <<>> \/ Head(afterNumber) # "]" THEN None
       ELSE LET rest == trimStart(Tail(afterNumber))
            IN IF \E i \in 1..Len(rest) : rest[i] \in {"\n", "\r"} THEN None
               ELSE Some([whole |-> whole, fraction |-> fraction, rest |-> rest])

parseCriterionText(rawText) ==
  LET trimmed == trim(rawText)
      match == matchCriterion(trimmed)
  IN IF match = None THEN [points |-> Zero, text |-> trimmed]
     ELSE [points |-> parseFloat(match[1].whole, match[1].fraction),
           text |-> trim(match[1].rest)]

\* list.find(test), given the elements of the list that satisfy the test in
\* list order: the first of them, undefined (None) when there is none.
find(hits) ==
  IF hits = <<>> THEN None ELSE Some(Head(hits))

extractRubricCriteria(root, itemBody) ==
  LET rubricBlocks == getElementsByLocalName(root, itemBody, "qti-rubric-block")
      scorer == find(SelectSeq(rubricBlocks,
                     LAMBDA block : getAttribute(NodeAt(root, block), "view")
                                      = Some(<<W("scorer")>>)))
  IN IF scorer = None THEN <<>>
     ELSE LET lines == getElementsByLocalName(root, scorer[1], "qti-p")
          IN [i \in 1..Len(lines) |->
                LET parsed == parseCriterionText(trim(textContent(NodeAt(root, lines[i]))))
                IN [index |-> i, points |-> parsed.points, text |-> parsed.text]]

extractChoices(root, itemBody) ==
  LET choices == getElementsByLocalName(root, itemBody, "qti-simple-choice")
  IN [i \in 1..Len(choices) |->
        [identifier |-> OrElse(getAttribute(NodeAt(root, choices[i]), "identifier"), <<>>),
         text |-> trim(textContent(NodeAt(root, choices[i])))]]

---------------------------------------------------------------------------
(* Scoring entry point *)

\* Returns [html, calls]: the explanation HTML (None for null) and the
\* blankRenderer invocations made while rendering it.
parseCandidateExplanation(root, options) ==
  LET modalFeedbacks == getElementsByLocalName(root, <<>>, "qti-modal-feedback")
      isExplanation(f) ==
        getAttribute(NodeAt(root, f), "identifier") = Some(<<W("EXPLANATION")>>)
      isFeedback(f) ==
        getAttribute(NodeAt(root, f), "outcome-identifier") = Some(<<W("FEEDBACK")>>)
      preferred == find(SelectSeq(modalFeedbacks,
                                 LAMBDA f : isExplanation(f) /\ isFeedback(f)))
      explanationFeedback ==
        IF preferred # None THEN preferred
        ELSE find(SelectSeq(modalFeedbacks, LAMBDA f : isExplanation(f)))
  IN IF explanationFeedback = None THEN [html |-> None, calls |-> <<>>]
     ELSE
       LET bodies == getElementsByLocalName(root, explanationFeedback[1], "qti-content-body")
       IN IF bodies = <<>> THEN [html |-> None, calls |-> <<>>]
          ELSE
            LET contentBody == bodies[1]
                blankCounter == newBlankCounter
                explanationNodes ==
                  SelectSeq(childNodes(root, contentBody),
                            LAMBDA c : \/ NodeAt(root, c).type # "text"
                                       \/ trim(textContent(NodeAt(root, c))) # <<>>)
                rendered == renderNodes(root, explanationNodes, options,
                                        blankCounter, FALSE, FALSE)
            IN [html |-> Some(rendered.html), calls |-> rendered.calls]

\* A plausible slip: only the missing document element is checked.
hasParseErrorRootOnly(xml) == xml.root = None

\* !root || root.nodeName === 'parsererror'
hasParseError(xml) == xml.root = None \/ xml.root[1].name = "parsererror"

\* xml is the document the parser returns for the string: [root |-> None] when
\* it has no document element, else [root |-> Some(tree)].  The value is
\* [ret, promptCalls, explanationCalls]: what the call returns or throws, and
\* the blankRenderer invocations it made for the prompt and the explanation.
scoringRender(xml, options) ==
  IF hasParseError(xml)
  THEN [ret |-> [kind |-> "error", error |-> "QTI item XML parse failed"],
        promptCalls |-> <<>>, explanationCalls |-> <<>>]
  ELSE
    LET root == xml.root[1]
        identifier == OrElse(getAttribute(root, "identifier"), <<>>)
        title == OrElse(getAttribute(root, "title"), identifier)
        itemBodies == getElementsByLocalName(root, <<>>, "qti-item-body")
    IN IF itemBodies = <<>>
       THEN [ret |-> [kind |-> "error", error |-> "qti-item-body not found"],
             promptCalls |-> <<>>, explanationCalls |-> <<>>]
       ELSE
         LET itemBody == itemBodies[1]
             blankCounter == newBlankCounter
             prompt == renderNodes(root, childNodes(root, itemBody), options,
                                   blankCounter, FALSE, FALSE)
             rubricCriteria == extractRubricCriteria(root, itemBody)
             choices == extractChoices(root, itemBody)
             explanation == parseCandidateExplanation(root, options)
         IN [ret |-> [kind |-> "ok",
                      identifier |-> identifier,
                      title |-> title,
                      promptHtml |-> prompt.html,
                      rubricCriteria |-> rubricCriteria,
                      choices |-> choices,
                      candidateExplanationHtml |-> explanation.html],
             promptCalls |-> prompt.calls,
             explanationCalls |-> explanation.calls]

---------------------------------------------------------------------------
(* Documents *)

MaxDepth == 3

MaxKids == 2

MaxBlanks == 2

Str(w) == <<W(w)>>

TEI == El("qti-text-entry-interaction", <<>>, <<>>)

T(chars) == Txt(chars)

ItemBody(kids) == El("qti-item-body", <<>>, kids)

Item(attrs, kids) == El("qti-assessment-item", attrs, kids)

Doc(root) == [root |-> Some(root)]

StdAttrs == <<Attr("identifier", Str("item-1")), Attr("title", Str("Item 1"))>>

StdDoc(bodyKids) == Doc(Item(StdAttrs, <<ItemBody(bodyKids)>>))

\* Documents that differ in what the entry points validate: no document
\* element, a parsererror root, the identifier and title attributes, and
\* where (and whether) the item-body is.
OptAttrs(name, vals) == {<<>>} \cup {<<Attr(name, v)>> : v \in vals}

RootDocs ==
  {[root |-> None], Doc(El("parsererror", <<>>, <<T(<<"e">>)>>))}
  \cup {Doc(Item(i \o t, b)) :
          i \in OptAttrs("identifier", {<<>>, Str("item-1"), Str("item-2")}),
          t \in OptAttrs("title", {<<>>, Str("Item 1")}),
          b \in {<<>>,
                 <<ItemBody(<<El("qti-p", <<>>, <<T(<<"Q">>), TEI>>)>>)>>,
                 <<El("qti-div", <<>>, <<ItemBody(<<TEI>>)>>)>>}}

\* Elements a text-entry-interaction may be nested in.
WrapNames ==
  {"qti-choice-interaction", "qti-simple-choice", "qti-rubric-block",
   "qti-pre", "qti-code", "qti-div"}

\* One element nested d deep in wrappers, around a blank or a text.
RECURSIVE Nested(_)
Nested(d) ==
  IF d = 0 THEN {TEI, T(<<"x">>)}
  ELSE Nested(d - 1)
       \cup {El(n, <<>>, <<k>>) : n \in WrapNames, k \in Nested(d - 1)}

\* The nested element alone, or between two blanks of the item-body.
NestedDocs ==
  {StdDoc(<<n>>) : n \in Nested(MaxDepth)}
  \cup {StdDoc(<<TEI, n, TEI>>) : n \in Nested(MaxDepth)}

\* Sibling structures: choices of one interaction, code split around a blank.
Choice(id, kids) == El("qti-simple-choice", <<Attr("identifier", Str(id))>>, kids)

Blocks ==
  {TEI,
   El("qti-p", <<>>, <<T(<<"a", " ">>), TEI, T(<<"&">>)>>),
   El("qti-choice-interaction", <<>>,
      <<El("qti-prompt", <<>>, <<T(<<"?">>)>>),
        Choice("A", <<T(<<"x">>), TEI>>),
        Choice("B", <<El("qti-em", <<>>, <<TEI>>)>>)>>),
   El("qti-pre", <<>>,
      <<El("qti-code", <<>>, <<T(<<"a", " ">>)>>), TEI,
        El("qti-code", <<>>, <<T(<<"\n", "b">>)>>)>>),
   El("qti-rubric-block", <<Attr("view", Str("scorer"))>>,
      <<El("qti-p", <<>>, <<T(<<"[", "1", "]", "k">>)>>)>>),
   El("qti-extended-text-interaction", <<>>, <<>>)}

SiblingDocs == {StdDoc(kids) : kids \in SeqUpTo(Blocks, MaxKids)}

\* Modal feedbacks: which one is the explanation, and the blanks in it.
Blanks(n) == [i \in 1..n |-> TEI]

Feedbacks ==
  {El("qti-modal-feedback", i \o o, c) :
     i \in {<<Attr("identifier", Str("EXPLANATION"))>>, <<Attr("identifier", Str("HINT"))>>},
     o \in OptAttrs("outcome-identifier", {Str("FEEDBACK")}),
     c \in {<<>>} \cup
           {<<El("qti-content-body", <<>>, <<T(<<" ">>)>> \o Blanks(n))>> : n \in {0, MaxBlanks}}}

FeedbackLists ==
  {<<>>} \cup {<<f>> : f \in Feedbacks} \cup {<<f, g>> : f \in Feedbacks, g \in Feedbacks}

ExplanationDocs ==
  {Doc(Item(StdAttrs, <<ItemBody(<<T(<<"Q">>)>> \o Blanks(n))>> \o fs)) :
     n \in 0..MaxBlanks, fs \in FeedbackLists}

\* Rubric lines: an optional marker, white space, and the rest of the line.
Markers ==
  {<<>>, <<"[", "2", "]">>, <<"[", "1", "5", "]">>, <<"[", "1", ".", "5", "]">>,
   <<"[", "1", ".", "5", "0", "]">>, <<"[", "2", ".", "]">>, <<"[", "x", "]">>}

LineTexts ==
  {pre \o m \o sep \o rest :
     pre \in {<<>>, <<" ">>},
     m \in Markers,
     sep \in {<<>>, <<" ">>, <<"\n">>},
     rest \in {<<>>, <<"G">>, <<"G", "\n", "H">>, <<"G", " ">>}}

P(chars) == El("qti-p", <<>>, <<T(chars)>>)

Rubric(view, kids) == El("qti-rubric-block", view, kids)

Scorer == <<Attr("view", Str("scorer"))>>

RubricLineDocs == {StdDoc(<<Rubric(Scorer, <<P(t)>>)>>) : t \in LineTexts}

MaxLines == 2

Views ==
  {<<>>, Scorer, <<Attr("view", Str("candidate"))>>,
   <<Attr("view", <<W("scorer"), W("tutor")>>)>>}

FewLines == {P(<<"[", "2", "]", " ", "G">>), P(<<"H">>)}

FlatRubrics == {Rubric(v, ls) : v \in Views, ls \in SeqUpTo(FewLines, MaxLines)}

OneLineRubrics == {Rubric(v, <<l>>) : v \in Views, l \in FewLines}

NestedRubrics ==
  {Rubric(v, ls \o <<inner>>) :
     v \in Views, ls \in SeqUpTo(FewLines, MaxLines), inner \in OneLineRubrics}

RubricDocs ==
  {StdDoc(<<b>>) : b \in FlatRubrics \cup NestedRubrics}
  \cup {StdDoc(<<a, b>>) : a \in FlatRubrics, b \in OneLineRubrics}

\* A pre of code, text and blanks: code with white space at either end,
\* with and without a line break in it, beside a blank or not.
MaxPreKids == 3

CodeTexts ==
  {<<" ", "a", " ">>, <<"\n", " ", "a", " ", "\r">>, <<" ">>, <<"a", "&">>}

PreKids ==
  {TEI, T(<<"x">>), T(<<" ">>)} \cup {El("qti-code", <<>>, <<T(t)>>) : t \in CodeTexts}

PreDocs == {StdDoc(<<El("qti-pre", <<>>, kids)>>) : kids \in SeqUpTo(PreKids, MaxPreKids)}

---------------------------------------------------------------------------
(* The calls a client makes *)

ScoringDocs == RootDocs \cup NestedDocs \cup SiblingDocs \cup ExplanationDocs
               \cup RubricLineDocs \cup RubricDocs \cup PreDocs

NoOptions == [x \in {} |-> 0]

ScoringCalls ==
  {<<xml, NoOptions>> : xml \in ScoringDocs}
  \cup {<<xml, [blankRenderer |-> "custom"]>> : xml \in SiblingDocs}

\* { ...defaults, ...options }
resolveOptions(defaults, options) ==
  [k \in DOMAIN defaults |-> IF k \in DOMAIN options THEN options[k] ELSE defaults[k]]

BlankCalls(calls, during) ==
  [i \in 1..Len(calls) |->
     [fn |-> "blankRenderer", index |-> calls[i].index, el |-> calls[i].el,
      during |-> during]]

Init ==
  /\ pc = "idle"
  /\ call = [op |-> "none"]
  /\ result = [kind |-> "none"]
  /\ log = <<>>
  /\ heap = <<>>
  /\ frames = <<>>

renderQtiItemForScoring ==
  /\ pc = "idle"
  /\ \E c \in ScoringCalls :
       LET resolved == resolveOptions(defaultScoringOptions, c[2])
           r == scoringRender(c[1], resolved)
       IN /\ call' = [op |-> "renderQtiItemForScoring", xml |-> c[1], options |-> c[2]]
          /\ result' = r.ret
          /\ log' = BlankCalls(r.promptCalls, "promptHtml")
                    \o BlankCalls(r.explanationCalls, "candidateExplanationHtml")
  /\ pc' = "done"
  /\ UNCHANGED <<heap, frames>>

SpecScoring == Init /\ [][renderQtiItemForScoring]_vars

---------------------------------------------------------------------------
(* Properties of the scoring render *)

ScoringDone == pc = "done" /\ call.op = "renderQtiItemForScoring"

ScoringOk == ScoringDone /\ result.kind = "ok"

CallRoot == call.xml.root[1]

CallItemBody == getElementsByLocalName(CallRoot, <<>>, "qti-item-body")[1]

LogDuring(during) == SelectSeq(log, LAMBDA e : e.fn = "blankRenderer" /\ e.during = during)

PromptLog == LogDuring("promptHtml")

ExplanationLog == LogDuring("candidateExplanationHtml")

\* The text-entry-interaction elements below the element at path, in document order.
BlanksBelow(root, path) ==
  SelectSeq(descendants(root, path), LAMBDA p : isBlank(root, p))

\* Whether an element named name lies strictly between the elements at top and at path.
Inside(root, top, path, name) ==
  \E k \in (Len(top) + 1)..(Len(path) - 1) : NodeAt(root, SubSeq(path, 1, k)).name = name

\* The item-body keeps every blank out of rubric blocks, every simple-choice
\* below a choice-interaction is a child of it, and every blank below a
\* choice-interaction lies in one of its simple-choices.
Regular(root, body) ==
  LET all == descendants(root, body)
      blanks == SelectSeq(all, LAMBDA p : isBlank(root, p))
      isPrefix(c, p) == Len(p) > Len(c) /\ SubSeq(p, 1, Len(c)) = c
  IN /\ \A i \in 1..Len(blanks) : ~Inside(root, body, blanks[i], "qti-rubric-block")
     /\ \A j \in 1..Len(all) :
          NodeAt(root, all[j]).name = "qti-choice-interaction" =>
            \A i \in 1..Len(all) :
              isPrefix(all[j], all[i]) =>
                /\ NodeAt(root, all[i]).name = "qti-simple-choice" =>
                     Len(all[i]) = Len(all[j]) + 1
                /\ isBlank(root, all[i]) =>
                     /\ Len(all[i]) > Len(all[j]) + 1
                     /\ NodeAt(root, SubSeq(all[i], 1, Len(all[j]) + 1)).name
                          = "qti-simple-choice"

ElementsOf(entries) == [i \in 1..Len(entries) |-> entries[i].el]

IndicesOf(entries) == [i \in 1..Len(entries) |-> entries[i].index]

OneToN(n) == [i \in 1..n |-> i]

AttrValues(el, name) == {el.attrs[i].val : i \in {j \in 1..Len(el.attrs) : el.attrs[j].name = name}}

ParseFailed == [kind |-> "error", error |-> "QTI item XML parse failed"]

BodyMissing == [kind |-> "error", error |-> "qti-item-body not found"]

\* C6: the scoring render fails with the parse error when the document has no
\* root or a parsererror root, with the structural error when no item-body is
\* below the root, and otherwise returns the root's identifier attribute (the
\* empty string when absent) and its title attribute, the identifier standing
\* in for an absent title.
C6_ScoringValidation ==
  ScoringDone =>
    IF call.xml.root = None THEN result = ParseFailed
    ELSE IF CallRoot.name = "parsererror" THEN result = ParseFailed
    ELSE IF \A i \in 1..Len(descendants(CallRoot, <<>>)) :
              NodeAt(CallRoot, descendants(CallRoot, <<>>)[i]).name # "qti-item-body"
         THEN result = BodyMissing
    ELSE /\ result.kind = "ok"
         /\ \/ result.identifier \in AttrValues(CallRoot, "identifier")
            \/ AttrValues(CallRoot, "identifier") = {} /\ result.identifier = <<>>
         /\ \/ result.title \in AttrValues(CallRoot, "title")
            \/ AttrValues(CallRoot, "title") = {} /\ result.title = result.identifier

\* A document with an identifier and no title attribute has been rendered.
C6_Witness ==
  /\ ScoringOk
  /\ AttrValues(CallRoot, "title") = {}
  /\ result.identifier = Str("item-2")
  /\ result.title = Str("item-2")

\* A parsererror root has been refused.
C6_WitnessParseError ==
  /\ ScoringDone
  /\ call.xml.root # None
  /\ result = ParseFailed

ScorerBlocks(root, body) ==
  SelectSeq(descendants(root, body),
            LAMBDA p : /\ NodeAt(root, p).name = "qti-rubric-block"
                       /\ AttrValues(NodeAt(root, p), "view") = {Str("scorer")})

IsPrefix(c, p) == Len(p) > Len(c) /\ SubSeq(p, 1, Len(c)) = c

\* The qti-p lines below the block at s that belong to no rubric block of
\* another view nested in it.
OwnLines(root, s) ==
  SelectSeq(descendants(root, s),
            LAMBDA l : /\ NodeAt(root, l).name = "qti-p"
                       /\ \A k \in (Len(s) + 1)..(Len(l) - 1) :
                            LET b == NodeAt(root, SubSeq(l, 1, k))
                            IN b.name = "qti-rubric-block" =>
                                 AttrValues(b, "view") = {Str("scorer")})

\* C8: the criteria are the lines of the first rubric-block with view="scorer";
\* no line of a rubric block with another view, nested in the scorer block or
\* not, yields a criterion, and without a scorer block the list is empty.
C8_OnlyScorerLines ==
  ScoringOk =>
    LET scorers == ScorerBlocks(CallRoot, CallItemBody)
    IN IF scorers = <<>> THEN result.rubricCriteria = <<>>
       ELSE Len(result.rubricCriteria) = Len(OwnLines(CallRoot, scorers[1]))

AllDigits(ds) == ds # <<>> /\ \A i \in 1..Len(ds) : IsDigit(ds[i])

\* ds is N of a "[N]" marker: digits, or digits "." digits.
IsNumber(ds) ==
  \/ AllDigits(ds)
  \/ \E d \in 2..(Len(ds) - 1) :
       /\ ds[d] = "."
       /\ AllDigits(SubSeq(ds, 1, d - 1))
       /\ AllDigits(SubSeq(ds, d + 1, Len(ds)))

NumberOf(ds) ==
  IF AllDigits(ds) THEN parseFloat(ds, <<>>)
  ELSE LET d == CHOOSE d \in 2..(Len(ds) - 1) : ds[d] = "."
       IN parseFloat(SubSeq(ds, 1, d - 1), SubSeq(ds, d + 1, Len(ds)))

\* The positions k at which a leading "[N]" marker of t ends.
MarkerEnds(t) ==
  {k \in 3..Len(t) : t[1] = "[" /\ t[k] = "]" /\ IsNumber(SubSeq(t, 2, k - 1))}

LineMeets(t, criterion) ==
  IF MarkerEnds(t) # {}
  THEN \E k \in MarkerEnds(t) :
         /\ criterion.points = NumberOf(SubSeq(t, 2, k - 1))
         /\ criterion.text = trim(SubSeq(t, k + 1, Len(t)))
  ELSE criterion.points = Zero /\ criterion.text = t

ScorerLines(root, body) ==
  IF ScorerBlocks(root, body) = <<>> THEN <<>>
  ELSE SelectSeq(descendants(root, ScorerBlocks(root, body)[1]),
                 LAMBDA l : NodeAt(root, l).name = "qti-p")

\* C9: each line of the scorer block yields a criterion whose points are the
\* number of the line's leading "[N]" marker and whose text is the trimmed
\* remainder, or 0 points and the whole trimmed line when it starts with no
\* marker; the criteria carry the indices 1..K in the order of the lines.
C9_CriterionOfLine ==
  ScoringOk =>
    LET lines == ScorerLines(CallRoot, CallItemBody)
    IN /\ Len(result.rubricCriteria) = Len(lines)
       /\ \A i \in 1..Len(lines) :
            /\ result.rubricCriteria[i].index = i
            /\ LineMeets(trim(textContent(NodeAt(CallRoot, lines[i]))),
                         result.rubricCriteria[i])

---------------------------------------------------------------------------
(* Serialized HTML as text *)

\* The text of a word, of an attribute value, of a tag, of an HTML string.
wordText(w) == IF w[1] = "" THEN w[2] ELSE w[1] \o "-" \o w[2]

RECURSIVE valueText(_)
valueText(val) ==
  IF val = <<>> THEN ""
  ELSE IF Len(val) = 1 THEN wordText(val[1])
  ELSE wordText(val[1]) \o " " \o valueText(Tail(val))

RECURSIVE attributesText(_)
attributesText(attrs) ==
  IF attrs = <<>> THEN ""
  ELSE " " \o attrs[1].name \o "=\"" \o valueText(attrs[1].val) \o "\""
       \o attributesText(Tail(attrs))

tokenText(t) ==
  CASE t.k = "ch" -> t.v
    [] t.k = "open" -> "<" \o t.v \o attributesText(t.attrs) \o ">"
    [] t.k = "close" -> "</" \o t.v \o ">"
    [] t.k = "void" -> "<" \o t.v \o attributesText(t.attrs) \o " />"

RECURSIVE htmlText(_)
htmlText(html) ==
  IF html = <<>> THEN "" ELSE tokenText(Head(html)) \o htmlText(Tail(html))

\* String.prototype.includes / startsWith
includes(s, m) ==
  \E i \in 1..(Len(s) - Len(m) + 1) : SubSeq(s, i, i + Len(m) - 1) = m

startsWith(s, m) == Len(s) >= Len(m) /\ SubSeq(s, 1, Len(m)) = m

\* The characters of a string.
StringChars(s) == [i \in 1..Len(s) |-> SubSeq(s, i, i)]

---------------------------------------------------------------------------
(* The HTML DOM parser the caller injects (linkedom, jsdom, the browser) *)

Entities ==
  <<[text |-> StringChars("&amp;"), char |-> "&"],
    [text |-> StringChars("&lt;"), char |-> "<"],
    [text |-> StringChars("&gt;"), char |-> ">"],
    [text |-> StringChars("&quot;"), char |-> "\""],
    [text |-> StringChars("&#39;"), char |-> "'"]>>

StartsWithChars(html, cs) ==
  Len(html) >= Len(cs) /\ \A i \in 1..Len(cs) : html[i] = Ch(cs[i])

\* parser.parseFromString(html, 'text/html') : the body's content in document
\* order.  A character reference becomes the character it names and a tag
\* written <name ... /> is the element <name ...>; here a "ch" token is a
\* character of a text node.
RECURSIVE parseFromString(_)
parseFromString(html) ==
  IF html = <<>> THEN <<>>
  ELSE LET hits == SelectSeq(Entities, LAMBDA e : StartsWithChars(html, e.text))
       IN IF hits # <<>>
            THEN <<Ch(hits[1].char)>>
                 \o parseFromString(SubSeq(html, Len(hits[1].text) + 1, Len(html)))
          ELSE IF Head(html).k = "void"
            THEN <<Open(Head(html).v, Head(html).attrs)>> \o parseFromString(Tail(html))
          ELSE <<Head(html)>> \o parseFromString(Tail(html))

\* doc.body.innerHTML : text is written with & < > escaped, a void element
\* as <name ...>.
innerHTML(doc) ==
  Flatten([i \in 1..Len(doc) |->
             IF doc[i].k = "ch"
               THEN Chars(replaceAll(replaceAll(replaceAll(<<doc[i].v>>,
                            "&", StringChars("&amp;")),
                            "<", StringChars("&lt;")),
                            ">", StringChars("&gt;")))
             ELSE <<doc[i]>>])

hasAttribute(el, name) == \E i \in 1..Len(el.attrs) : el.attrs[i].name = name

\* el.setAttribute(name, value) on the attribute list of an element.
setAttribute(attrs, name, value) ==
  IF \E i \in 1..Len(attrs) : attrs[i].name = name
    THEN [i \in 1..Len(attrs) |->
            IF attrs[i].name = name THEN Attr(name, value) ELSE attrs[i]]
  ELSE Append(attrs, Attr(name, value))

\* doc.querySelectorAll('name.className') / ('name[attribute]') : the
\* positions of the matching elements, in document order.
querySelectorAllByClass(doc, name, className) ==
  SelectSeq([i \in 1..Len(doc) |-> i],
            LAMBDA i : /\ doc[i].k = "open"
                       /\ doc[i].v = name
                       /\ \E w \in 1..Len(OrElse(getAttribute(doc[i], "class"), <<>>)) :
                            getAttribute(doc[i], "class")[1][w] = className)

querySelectorAllByAttribute(doc, name, attribute) ==
  SelectSeq([i \in 1..Len(doc) |-> i],
            LAMBDA i : doc[i].k = "open" /\ doc[i].v = name
                       /\ hasAttribute(doc[i], attribute))

\* domParser is the option (None when not given), global tells whether
\* globalThis.DOMParser is a function.  None stands for the thrown Error.
resolveHtmlDomParser(domParser, global) ==
  IF domParser # None THEN domParser
  ELSE IF global THEN Some("globalThis.DOMParser")
  ELSE None

ParserUnavailable == [kind |-> "error", error |-> "DOMParser is not available"]

ResolveEvent(parser) == [fn |-> "resolveHtmlDomParser", parser |-> parser]

ParseEvent(parser, html) ==
  [fn |-> "parseFromString", parser |-> parser, html |-> html, mimeType |-> "text/html"]

---------------------------------------------------------------------------
(* Response applicator *)

MIN_BLANK_SIZE == 6

BlankMarker == "qti-blank-input"

Null == [kind |-> "null"]

Undefined == [kind |-> "undefined"]

OneString(value) == [kind |-> "string", value |-> value]

Array(items) == [kind |-> "array", items |-> items]

normalizeResponses(response) ==
  IF response.kind \in {"null", "undefined"} THEN <<>>
  ELSE IF response.kind = "array" THEN response.items
  ELSE <<response.value>>

\* A plausible slip: the size is the length of the response, with no minimum.
computeBlankSizeOfLength(value) == Len(valueText(value))

computeBlankSize(value) == Max(MIN_BLANK_SIZE, Len(valueText(value)))

\* A plausible slip: the fast path looks for any input, not for the marker.
includesAnyInput(promptHtml) == includes(htmlText(promptHtml), "input")

\* promptHtml.includes('qti-blank-input')
includesBlankMarker(promptHtml) == includes(htmlText(promptHtml), BlankMarker)

\* The value is [ret, events]: what the call returns or throws, and the
\* uses of the DOM parser it made.
applyResponses(promptHtml, response, options, global) ==
  LET unchanged == [kind |-> "ok", html |-> promptHtml]
      responses == normalizeResponses(response)
      parser == resolveHtmlDomParser(options.domParser, global)
      doc == parseFromString(promptHtml)
      blanks == querySelectorAllByClass(doc, "input", W(BlankMarker))
      filled ==
        [p \in 1..Len(doc) |->
           IF \E index \in 1..Len(blanks) : blanks[index] = p /\ index <= Len(responses)
             THEN LET index == CHOOSE i \in 1..Len(blanks) : blanks[i] = p
                      value == responses[index]
                  IN [doc[p] EXCEPT !.attrs =
                        setAttribute(setAttribute(@, "value", value), "size",
                                     <<W(ToString(computeBlankSize(value)))>>)]
           ELSE doc[p]]
  IN IF ~includesBlankMarker(promptHtml) THEN [ret |-> unchanged, events |-> <<>>]
     ELSE IF Len(responses) = 0 THEN [ret |-> unchanged, events |-> <<>>]
     ELSE IF parser = None
       THEN [ret |-> ParserUnavailable, events |-> <<ResolveEvent(parser)>>]
     ELSE IF blanks = <<>>
       THEN [ret |-> unchanged,
             events |-> <<ResolveEvent(parser), ParseEvent(parser[1], promptHtml)>>]
     ELSE [ret |-> [kind |-> "ok", html |-> innerHTML(filled)],
           events |-> <<ResolveEvent(parser), ParseEvent(parser[1], promptHtml)>>]

MaxResponses == 3

\* Prompts the scoring render produces, and prompts that spell the marker
\* elsewhere: in text, on a span, inside a longer class name, and blank
\* inputs whose labels run against the document order.
RenderedPrompt(bodyKids, options) ==
  scoringRender(StdDoc(bodyKids), resolveOptions(defaultScoringOptions, options)).ret.promptHtml

BlankInput(classes, label, more) ==
  Void("input", <<Attr("class", classes), Attr("data-blank", <<W(label)>>)>> \o more)

Prompts ==
  {RenderedPrompt(<<El("qti-p", <<>>, <<T(<<"A", "'">>)>> \o Blanks(n))>>, NoOptions) :
     n \in 0..MaxBlanks}
  \cup {RenderedPrompt(<<TEI, El("qti-hr", <<>>, <<>>)>>, [blankRenderer |-> "custom"]),
        Chars(StringChars(BlankMarker)),
        <<Open("span", <<Attr("class", <<W(BlankMarker)>>)>>), Close("span")>>,
        <<Void("input", <<Attr("class", <<W("qti-blank-input-wide")>>)>>)>>,
        <<BlankInput(<<W("big"), W(BlankMarker)>>, "2",
                     <<Attr("size", <<W("3")>>), Attr("value", <<W("old")>>)>>),
          Void("br", <<>>),
          BlankInput(<<W(BlankMarker)>>, "1", <<>>)>>}

ResponseValues == {<<>>, <<W("ab")>>, <<W("TypeScript")>>, <<W("a"), W("b")>>}

Responses ==
  {Null, Undefined} \cup {OneString(v) : v \in ResponseValues}
  \cup {Array(items) : items \in SeqUpTo(ResponseValues, MaxResponses)}

DomParserOptions == {None, Some("linkedom")}

applyResponsesToPromptHtml ==
  /\ pc = "idle"
  /\ \E promptHtml \in Prompts, response \in Responses,
        domParser \in DomParserOptions, global \in BOOLEAN :
       LET r == applyResponses(promptHtml, response, [domParser |-> domParser], global)
       IN /\ call' = [op |-> "applyResponsesToPromptHtml", promptHtml |-> promptHtml,
                      response |-> response, domParser |-> domParser,
                      DOMParser |-> global]
          /\ result' = r.ret
          /\ log' = r.events
  /\ pc' = "done"
  /\ UNCHANGED <<heap, frames>>

SpecApply == Init /\ [][applyResponsesToPromptHtml]_vars

---------------------------------------------------------------------------
(* Properties of the response applicator *)

ApplyDone == pc = "done" /\ call.op = "applyResponsesToPromptHtml"

ResponseAbsent ==
  call.response \in {Null, Undefined, Array(<<>>)}

MarkerAbsent == ~includes(htmlText(call.promptHtml), "qti-blank-input")

\* C3: applyResponsesToPromptHtml returns the very promptHtml it was given,
\* without resolving or invoking a DOM parser, whenever the prompt does not
\* contain the blank marker or the response is null, undefined or empty.
C3_NoOpWithoutParser ==
  (ApplyDone /\ (MarkerAbsent \/ ResponseAbsent))
    => /\ result = [kind |-> "ok", html |-> call.promptHtml]
       /\ log = <<>>

\* A prompt with an input but no marker, a response to apply and no parser
\* at all: the call still returns.
C3_Witness ==
  /\ ApplyDone
  /\ MarkerAbsent
  /\ ~ResponseAbsent
  /\ includes(htmlText(call.promptHtml), "<input")
  /\ call.domParser = None /\ ~call.DOMParser
  /\ result.kind = "ok"

\* The blank inputs of an HTML string, in document order.
BlankInputs(html) ==
  SelectSeq(html, LAMBDA t : /\ t.k \in {"open", "void"}
                             /\ t.v = "input"
                             /\ \E a \in 1..Len(t.attrs) :
                                  /\ t.attrs[a].name = "class"
                                  /\ \E w \in 1..Len(t.attrs[a].val) :
                                       t.attrs[a].val[w] = <<"", "qti-blank-input">>)

AttrOf(t, name) == getAttribute(t, name)

ParserAvailable == call.domParser # None \/ call.DOMParser

SixOrLength(value) ==
  IF Len(valueText(value)) > 6 THEN Len(valueText(value)) ELSE 6

\* C4: with a DOM parser at hand, the i-th blank input in document order gets
\* the i-th response as its value and max(6, length) as its size; blanks
\* beyond the responses keep their attributes, responses beyond the blanks
\* are ignored, and the call does not fail.
C4_FillsByPosition ==
  (ApplyDone /\ ParserAvailable)
    => LET before == BlankInputs(call.promptHtml)
           responses == IF call.response.kind = "array" THEN call.response.items
                        ELSE IF call.response.kind = "string" THEN <<call.response.value>>
                        ELSE <<>>
           after == BlankInputs(result.html)
       IN /\ result.kind = "ok"
          /\ Len(after) = Len(before)
          /\ Len(responses) > 0 =>
               \A i \in 1..Len(before) :
                 IF i <= Len(responses)
                   THEN /\ AttrOf(after[i], "value") = Some(responses[i])
                        /\ AttrOf(after[i], "size")
                             = Some(<<W(ToString(SixOrLength(responses[i])))>>)
                        /\ AttrOf(after[i], "data-blank") = AttrOf(before[i], "data-blank")
                 ELSE after[i].attrs = before[i].attrs

\* Two blanks labelled against the document order, one long response.
C4_Witness ==
  /\ ApplyDone
  /\ ParserAvailable
  /\ Len(BlankInputs(call.promptHtml)) = 2
  /\ AttrOf(BlankInputs(call.promptHtml)[1], "data-blank") = Some(<<W("2")>>)
  /\ call.response = Array(<<<<W("TypeScript")>>>>)
  /\ AttrOf(BlankInputs(result.html)[1], "size") = Some(<<W("10")>>)
  /\ AttrOf(BlankInputs(result.html)[2], "value") = None

\* More responses than blanks.
C4_WitnessSurplus ==
  /\ ApplyDone
  /\ ParserAvailable
  /\ Len(BlankInputs(call.promptHtml)) = 1
  /\ call.response.kind = "array"
  /\ Len(call.response.items) = 3
  /\ result.kind = "ok"

---------------------------------------------------------------------------
(* Image source rewriter *)

Letters == {"a", "b", "c", "d", "e", "f", "g", "h", "i", "j", "k", "l", "m",
            "n", "o", "p", "q", "r", "s", "t", "u", "v", "w", "x", "y", "z",
            "A", "B", "C", "D", "E", "F", "G", "H", "I", "J", "K", "L", "M",
            "N", "O", "P", "Q", "R", "S", "T", "U", "V", "W", "X", "Y", "Z"}

\* /^(?:[a-z]+:)?\/\//i.test(src)
matchesSchemeOrProtocolRelative(src) ==
  \/ startsWith(src, "//")
  \/ \E n \in 1..Len(src) :
       /\ \A i \in 1..n : SubSeq(src, i, i) \in Letters
       /\ SubSeq(src, n + 1, n + 3) = "://"

\* A plausible slip: root-relative paths are not taken for external.
defaultIsExternalSourceNoRoot(src) ==
  matchesSchemeOrProtocolRelative(src) \/ startsWith(src, "data:")

defaultIsExternalSource(src) ==
  matchesSchemeOrProtocolRelative(src) \/ startsWith(src, "data:") \/ startsWith(src, "/")

\* options.isExternalSource ?? defaultIsExternalSource, applied to src.  The
\* detectors a caller passes: one that takes nothing for external, one that
\* takes the sources below vendor/ for external.
isExternalSource(detector, src) ==
  IF detector = None THEN defaultIsExternalSource(src)
  ELSE IF detector[1] = "never" THEN FALSE
  ELSE startsWith(src, "vendor/")

\* resolveRelativePath of qti-xml-core: the table says which sources it
\* cannot resolve and what falsy value it returns for them ("null" or "");
\* a resolved path lies in the directory of the base file.
resolveRelativePath(table, baseFilePath, rawSrc) ==
  IF rawSrc \in DOMAIN table THEN table[rawSrc] ELSE Some(baseFilePath \o rawSrc)

Truthy(resolved) == resolved # None /\ resolved # Some("")

\* options.resolveUrl of the test: told apart by both of its arguments.
resolveUrl(resolved, originalSrc) == "/assets/" \o resolved \o "#" \o originalSrc

\* The value is [ret, events].
rewriteImageSources(html, baseFilePath, options, global, table) ==
  LET parser == resolveHtmlDomParser(options.domParser, global)
      doc == parseFromString(html)
      images == querySelectorAllByAttribute(doc, "img", "src")
      rewritten ==
        [p \in 1..Len(doc) |->
           IF \E i \in 1..Len(images) : images[i] = p
             THEN LET rawSrc == valueText(getAttribute(doc[p], "src")[1])
                      resolved == resolveRelativePath(table, baseFilePath, rawSrc)
                  IN IF rawSrc = "" \/ isExternalSource(options.isExternalSource, rawSrc)
                       THEN doc[p]
                     ELSE IF ~Truthy(resolved) THEN doc[p]
                     ELSE [doc[p] EXCEPT !.attrs =
                             setAttribute(@, "src", <<W(resolveUrl(resolved[1], rawSrc))>>)]
           ELSE doc[p]]
  IN IF parser = None
       THEN [ret |-> ParserUnavailable, events |-> <<ResolveEvent(parser)>>]
     ELSE [ret |-> [kind |-> "ok", html |-> innerHTML(rewritten)],
           events |-> <<ResolveEvent(parser), ParseEvent(parser[1], html)>>]

MaxImages == 2

Sources ==
  {"", "images/pic.png", "../pic.png", "vendor/pic.png", "https://cdn.test/pic.png",
   "HTTP://cdn.test/pic.png", "//cdn.test/pic.png", "/pic.png",
   "data:image/png;base64,AA", "mailto:pic", "x1://pic", "pic.png?u=//cdn"}

Img(src) == Void("img", <<Attr("src", <<W(src)>>), Attr("alt", <<W("pic")>>)>>)

ImageTokens ==
  {Img(src) : src \in Sources}
  \cup {Void("img", <<Attr("alt", <<W("pic")>>)>>),
        Void("input", <<Attr("src", <<W("images/pic.png")>>)>>)}

ImageHtmls == SeqUpTo(ImageTokens, MaxImages)

BaseFilePath == "items/"

\* What the resolver cannot resolve.
ResolverTables ==
  {<<>>,
   [s \in {"images/pic.png"} |-> None],
   [s \in {"../pic.png"} |-> Some("")],
   [s \in {"../pic.png", "mailto:pic"} |-> None]}

Detectors == {None, Some("never"), Some("vendor")}

rewriteHtmlImageSources ==
  /\ pc = "idle"
  /\ \E html \in ImageHtmls, detector \in Detectors, table \in ResolverTables,
        domParser \in DomParserOptions :
       LET r == rewriteImageSources(html, BaseFilePath,
                                    [domParser |-> domParser, isExternalSource |-> detector],
                                    FALSE, table)
       IN /\ call' = [op |-> "rewriteHtmlImageSources", html |-> html,
                      baseFilePath |-> BaseFilePath, isExternalSource |-> detector,
                      domParser |-> domParser, table |-> table]
          /\ result' = r.ret
          /\ log' = r.events
  /\ pc' = "done"
  /\ UNCHANGED <<heap, frames>>

SpecRewrite == Init /\ [][rewriteHtmlImageSources]_vars

---------------------------------------------------------------------------
(* Properties of the image source rewriter *)

RewriteDone ==
  pc = "done" /\ call.op = "rewriteHtmlImageSources" /\ result.kind = "ok"

\* The img elements of an HTML string that have a src attribute.
ImagesWithSrc(html) ==
  SelectSeq(html, LAMBDA t : /\ t.k \in {"open", "void"}
                             /\ t.v = "img"
                             /\ \E a \in 1..Len(t.attrs) : t.attrs[a].name = "src")

SrcOf(t) == valueText(getAttribute(t, "src")[1])

HasPrefix(s, prefix) == Len(s) >= Len(prefix) /\ SubSeq(s, 1, Len(prefix)) = prefix

\* What the default detector takes for external: a URL that starts with a
\* scheme of letters and "://", a protocol-relative URL, a root-relative path
\* and a data: URI.
ExternalByDefault(src) ==
  \/ \E n \in 1..Len(src) :
       /\ \A i \in 1..n : SubSeq(src, i, i) \in Letters
       /\ HasPrefix(SubSeq(src, n + 1, Len(src)), "://")
  \/ HasPrefix(src, "//")
  \/ HasPrefix(src, "/")
  \/ HasPrefix(src, "data:")

ClassifiedExternal(src) ==
  IF call.isExternalSource = None THEN ExternalByDefault(src)
  ELSE IF call.isExternalSource = Some("never") THEN FALSE
  ELSE HasPrefix(src, "vendor/")

ResolverResult(src) ==
  IF src \in DOMAIN call.table THEN call.table[src] ELSE Some("items/" \o src)

C7_WitnessUnresolvable ==
  /\ RewriteDone
  /\ \E i \in 1..Len(ImagesWithSrc(call.html)) :
       /\ SrcOf(ImagesWithSrc(call.html)[i]) = "../pic.png"
       /\ call.table # <<>> /\ "../pic.png" \in DOMAIN call.table
       /\ SrcOf(ImagesWithSrc(result.html)[i]) = "../pic.png"

---------------------------------------------------------------------------
(* Report renderer *)

\* clozeInputHtml is raw HTML, '<input class=cloze-input type=text readonly
\* aria-label=blank>', held as the tag it spells.
defaultReportOptions ==
  [clozeInputHtml |-> <<Open("input", <<Attr("class", <<W("cloze-input")>>),
                                        Attr("type", <<W("text")>>),
                                        Attr("readonly", <<>>),
                                        Attr("aria-label", <<W("blank")>>)>>)>>,
   choiceWrapperClassName |-> <<W("choice-interaction")>>,
   codeBlockClassName |-> <<W("code-block"), W("hljs")>>,
   codeBlockCodeClassName |-> <<W("code-block-code")>>,
   inlineCodeClassName |-> <<W("code-inline")>>,
   dataCodeLangAttribute |-> "data-code-lang",
   itemBodyWrapperClassName |-> <<W("item-body")>>,
   codeHighlighter |-> None]

\* Attribute values hold no character that escapeHtml rewrites, so the
\* escaped value is the value.
serializeAttributes(el) ==
  SelectSeq(el.attrs, LAMBDA attr : ~(attr.name = "xmlns" \/ startsWith(attr.name, "xmlns:")))

RECURSIVE renderNodeForReport(_, _, _, _, _)
renderNodeForReport(root, path, options, inPre, preserveWhitespace) ==
  LET node == NodeAt(root, path)
      name == node.name
      renderChildren(nextInPre, nextPreserve) ==
        Flatten([i \in 1..Len(node.kids) |->
                   renderNodeForReport(root, path \o <<i>>, options, nextInPre, nextPreserve)])
  IN IF node.type = "text"
       THEN IF inPre /\ ~preserveWhitespace /\ trim(node.text) = <<>>
              THEN <<>>
            ELSE Chars(escapeHtml(node.text))
     ELSE CASE name = "qti-rubric-block" -> <<>>
            [] name = "qti-choice-interaction" ->
                 <<Open("div", IF options.choiceWrapperClassName # <<>>
                                 THEN <<Attr("class", options.choiceWrapperClassName)>>
                               ELSE <<>>)>>
                 \o renderChildren(inPre, preserveWhitespace) \o <<Close("div")>>
            [] name = "qti-text-entry-interaction" -> options.clozeInputHtml
            [] name = "qti-extended-text-interaction" -> <<>>
            [] name \in {"qti-pre", "pre"} ->
                 <<Open("pre", serializeAttributes(node))>>
                 \o renderChildren(TRUE, FALSE) \o <<Close("pre")>>
            [] name \in {"qti-code", "code"} ->
                 <<Open("code", serializeAttributes(node))>>
                 \o renderChildren(inPre, TRUE) \o <<Close("code")>>
            [] name \in {"qti-img", "img"} -> <<Void("img", serializeAttributes(node))>>
            [] name \in {"qti-hr", "hr"} -> <<Void("hr", <<>>)>>
            [] OTHER ->
                 LET tagName == IF startsWith(name, "qti-") THEN SubSeq(name, 5, Len(name))
                                ELSE name
                 IN <<Open(tagName, serializeAttributes(node))>>
                    \o renderChildren(inPre, preserveWhitespace) \o <<Close(tagName)>>

---------------------------------------------------------------------------
(* The three passes over the serialized report HTML *)

Digits == {"0", "1", "2", "3", "4", "5", "6", "7", "8", "9"}

\* <tag\b[^>]*> : an open tag whose name is tag, or goes on after tag with a
\* character that is not a word character.
IsOpenTag(t, tag) ==
  /\ t.k = "open"
  /\ startsWith(t.v, tag)
  /\ Len(t.v) > Len(tag) =>
       SubSeq(t.v, Len(tag) + 1, Len(tag) + 1) \notin (Letters \cup Digits \cup {"_"})

\* <\/?code\b[^>]*>
IsCodeTag(t) ==
  \/ IsOpenTag(t, "code")
  \/ /\ t.k = "close"
     /\ startsWith(t.v, "code")
     /\ Len(t.v) > 4 => SubSeq(t.v, 5, 5) \notin (Letters \cup Digits \cup {"_"})

\* parseAttributes(tagOpen)[name] : None when the record has no such key; a
\* later attribute of the same name replaces an earlier one.
parseAttributes(tagOpen, name) ==
  LET m == SelectSeq(tagOpen.attrs, LAMBDA a : a.name = name)
  IN IF m = <<>> THEN None ELSE Some(m[Len(m)].val)

\* The first attribute of that name gets the value; with none, the attribute
\* is put right behind the tag name.
addOrUpdateAttribute(tagOpen, attributeName, attributeValue) ==
  LET hits == SelectSeq([i \in 1..Len(tagOpen.attrs) |-> i],
                        LAMBDA i : tagOpen.attrs[i].name = attributeName)
  IN IF hits # <<>>
       THEN [tagOpen EXCEPT !.attrs[hits[1]] = Attr(attributeName, attributeValue)]
     ELSE [tagOpen EXCEPT !.attrs = <<Attr(attributeName, attributeValue)>> \o @]

\* value.split(/\s+/) : the words of the value; the empty string has one
\* empty word.
split(value) == IF value = <<>> THEN <<W("")>> ELSE value

\* Array.from(new Set(tokens)) : first occurrences, in order.
uniqueTokens(tokens) ==
  SelectSeq([i \in 1..Len(tokens) |->
               IF \E j \in 1..(i - 1) : wordText(tokens[j]) = wordText(tokens[i])
                 THEN <<>> ELSE tokens[i]],
            LAMBDA w : w # <<>>)

\* tokens.join(' ')
join(tokens) == IF tokens = <<W("")>> THEN <<>> ELSE tokens

addClasses(tagOpen, classNames) ==
  LET existing == OrElse(parseAttributes(tagOpen, "class"), <<>>)
      kept == SelectSeq(split(existing), LAMBDA token : Len(wordText(token)) > 0)
      merged == uniqueTokens(kept \o classNames)
  IN addOrUpdateAttribute(tagOpen, "class", join(merged))

\* token.match(/^(?:language|lang)-([A-Za-z0-9_-]+)$/) : None or Some(group 1)
languageOfToken(token) ==
  LET text == wordText(token)
      rest == IF startsWith(text, "language-") THEN Some(SubSeq(text, 10, Len(text)))
              ELSE IF startsWith(text, "lang-") THEN Some(SubSeq(text, 6, Len(text)))
              ELSE None
  IN IF /\ rest # None
        /\ Len(rest[1]) > 0
        /\ \A i \in 1..Len(rest[1]) :
             SubSeq(rest[1], i, i) \in (Letters \cup Digits \cup {"_", "-"})
       THEN rest
     ELSE None

\* None for null, else Some(language).
detectCodeLanguageFromOpenTag(tagOpen) ==
  LET dataLang == parseAttributes(tagOpen, "data-lang")
      dataLanguage == parseAttributes(tagOpen, "data-language")
      fromData == IF dataLang # None THEN dataLang
                  ELSE IF dataLanguage # None THEN dataLanguage
                  ELSE parseAttributes(tagOpen, "data-code-lang")
      classAttr == parseAttributes(tagOpen, "class")
      matches == SelectSeq(split(OrElse(classAttr, <<>>)),
                           LAMBDA token : languageOfToken(token) # None)
  IN IF fromData # None /\ fromData[1] # <<>> THEN Some(valueText(fromData[1]))
     ELSE IF classAttr = None \/ classAttr[1] = <<>> THEN None
     ELSE IF matches # <<>> THEN languageOfToken(matches[1])
     ELSE None

UpperCase == StringChars("ABCDEFGHIJKLMNOPQRSTUVWXYZ")

LowerCase == StringChars("abcdefghijklmnopqrstuvwxyz")

RECURSIVE toLowerCase(_)
toLowerCase(s) ==
  IF Len(s) = 0 THEN ""
  ELSE LET c == SubSeq(s, 1, 1)
           lower == IF \E i \in 1..26 : UpperCase[i] = c
                      THEN LowerCase[CHOOSE i \in 1..26 : UpperCase[i] = c]
                    ELSE c
       IN lower \o toLowerCase(SubSeq(s, 2, Len(s)))

normalizeLanguageForReport(language) ==
  LET normalized == toLowerCase(language)
  IN IF normalized = "xml" THEN "html"
     ELSE IF normalized = "plaintext" THEN "plain"
     ELSE normalized

\* value.replace(/entity/g, char) on serialized HTML
RECURSIVE replaceEntity(_, _, _)
replaceEntity(html, entity, char) ==
  IF html = <<>> THEN <<>>
  ELSE IF StartsWithChars(html, entity)
    THEN <<Ch(char)>> \o replaceEntity(SubSeq(html, Len(entity) + 1, Len(html)), entity, char)
  ELSE <<Head(html)>> \o replaceEntity(Tail(html), entity, char)

decodeXmlEntities(value) ==
  replaceEntity(
    replaceEntity(
      replaceEntity(
        replaceEntity(
          replaceEntity(value, StringChars("&lt;"), "<"),
          StringChars("&gt;"), ">"),
        StringChars("&amp;"), "&"),
      StringChars("&quot;"), "\""),
    StringChars("&apos;"), "'")

\* The first of the positions hits that is not before from, 0 when there is
\* none: where a leftmost, non-greedy match ends or goes on.
firstFrom(from, hits) ==
  IF \E j \in hits : j >= from
    THEN CHOOSE j \in hits : j >= from /\ \A i \in hits : i >= from => j <= i
  ELSE 0

\* The positions of the tokens of html that are the token t.
positionsOf(html, t) == {j \in 1..Len(html) : html[j] = t}

\* A plausible slip: the wrapper is the last code open tag of the block.
normalizePreBlockLastCode(preBlock) ==
  LET preOpen == preBlock[1]
      inner == SubSeq(preBlock, 2, Len(preBlock) - 1)
      codeOpenMatches == SelectSeq(inner, LAMBDA t : IsOpenTag(t, "code"))
      withoutCodeTags == SelectSeq(inner, LAMBDA t : ~IsCodeTag(t))
  IN IF codeOpenMatches = <<>> THEN preBlock
     ELSE <<preOpen, codeOpenMatches[Len(codeOpenMatches)]>> \o withoutCodeTags
          \o <<Close("code"), Close("pre")>>

\* The callback of normalizePreBlocks, on one <pre ...>...</pre> block.
normalizePreBlock(preBlock) ==
  LET preOpen == preBlock[1]
      inner == SubSeq(preBlock, 2, Len(preBlock) - 1)
      firstCodeOpenMatch == SelectSeq(inner, LAMBDA t : IsOpenTag(t, "code"))
      withoutCodeTags == SelectSeq(inner, LAMBDA t : ~IsCodeTag(t))
  IN IF firstCodeOpenMatch = <<>> THEN preBlock
     ELSE <<preOpen, firstCodeOpenMatch[1]>> \o withoutCodeTags
          \o <<Close("code"), Close("pre")>>

RECURSIVE normalizePreBlocks(_)
normalizePreBlocks(htmlFragment) ==
  IF htmlFragment = <<>> THEN <<>>
  ELSE LET end == firstFrom(2, positionsOf(htmlFragment, Close("pre")))
       IN IF IsOpenTag(Head(htmlFragment), "pre") /\ end # 0
            THEN normalizePreBlock(SubSeq(htmlFragment, 1, end))
                 \o normalizePreBlocks(SubSeq(htmlFragment, end + 1, Len(htmlFragment)))
          ELSE <<Head(htmlFragment)>> \o normalizePreBlocks(Tail(htmlFragment))

\* The highlighters a caller passes: the one of the test, one that keeps the
\* declared language and wraps the code, and one that returns no HTML.
codeHighlighter(highlighter, code, explicitLanguage) ==
  CASE highlighter = "css" ->
         [language |-> "css",
          html |-> <<Open("span", <<>>), Ch("c"), Ch("s"), Ch("s"), Close("span")>>]
    [] highlighter = "wrap" ->
         [language |-> OrElse(explicitLanguage, "plaintext"),
          html |-> <<Open("span", <<Attr("class", <<W("hl")>>)>>)>>
                   \o Flatten([i \in 1..Len(code) |->
                                 IF code[i].k = "ch" THEN Chars(escapeHtml(<<code[i].v>>))
                                 ELSE <<code[i]>>])
                   \o <<Close("span")>>]
    [] highlighter = "empty" -> [language |-> "XML", html |-> <<>>]

\* The tags and content of one enhanced block, once its language and content
\* are known.
enhancedBlock(preOpen, whitespace, codeOpen, content, codeClose, options, language) ==
  <<addOrUpdateAttribute(addClasses(preOpen, split(options.codeBlockClassName)),
                         options.dataCodeLangAttribute, <<W(language)>>)>>
  \o whitespace
  \o <<addOrUpdateAttribute(addClasses(codeOpen, split(options.codeBlockCodeClassName)),
                            options.dataCodeLangAttribute, <<W(language)>>)>>
  \o content \o <<codeClose>>

\* The branch of the callback with a highlighter: highlighted is its answer
\* for the decoded code.
highlightedBlock(preOpen, whitespace, codeOpen, codeContent, codeClose, options, code, explicitLanguage, highlighted) ==
  [html |-> enhancedBlock(preOpen, whitespace, codeOpen,
                          IF Len(highlighted.html) > 0 THEN highlighted.html ELSE codeContent,
                          codeClose, options,
                          normalizeLanguageForReport(highlighted.language)),
   calls |-> <<[fn |-> "codeHighlighter", code |-> code,
                explicitLanguage |-> explicitLanguage]>>]

\* The callback once explicitLanguage is detected.
enhanceCodeBlockOfLanguage(preOpen, whitespace, codeOpen, codeContent, codeClose, options, highlighter, code, explicitLanguage) ==
  IF highlighter # None
    THEN highlightedBlock(preOpen, whitespace, codeOpen, codeContent, codeClose, options,
                          code, explicitLanguage,
                          codeHighlighter(highlighter[1], code, explicitLanguage))
  ELSE [html |-> enhancedBlock(preOpen, whitespace, codeOpen, codeContent, codeClose, options,
                               IF explicitLanguage # None
                                 THEN normalizeLanguageForReport(explicitLanguage[1])
                               ELSE "plain"),
        calls |-> <<>>]

\* A plausible slip: the highlighter is handed the serialized code as it is.
enhanceCodeBlockUndecoded(preOpen, whitespace, codeOpen, codeContent, codeClose, options, highlighter) ==
  enhanceCodeBlockOfLanguage(preOpen, whitespace, codeOpen, codeContent, codeClose, options,
                             highlighter, codeContent,
                             detectCodeLanguageFromOpenTag(codeOpen))

\* The callback of enhanceCodeBlocks on one match.  The value is [html, calls].
enhanceCodeBlock(preOpen, whitespace, codeOpen, codeContent, codeClose, options, highlighter) ==
  enhanceCodeBlockOfLanguage(preOpen, whitespace, codeOpen, codeContent, codeClose, options,
                             highlighter, decodeXmlEntities(codeContent),
                             detectCodeLanguageFromOpenTag(codeOpen))

\* The matches of /(<pre\b[^>]*>)(\s*)(<code\b[^>]*>)([\s\S]*?)(<\/code>)/g
\* from position from on, left to right and not overlapping: for each the
\* positions of the pre open tag, the code open tag and the code close tag.
RECURSIVE preCodeMatches(_, _)
preCodeMatches(htmlFragment, from) ==
  IF from > Len(htmlFragment) THEN <<>>
  ELSE LET code == firstFrom(from + 1, {j \in 1..Len(htmlFragment) :
                                          ~(htmlFragment[j].k = "ch" /\ IsSpace(htmlFragment[j].v))})
           end == IF code = 0 THEN 0
                  ELSE firstFrom(code + 1, positionsOf(htmlFragment, Close("code")))
       IN IF /\ IsOpenTag(htmlFragment[from], "pre")
             /\ code # 0
             /\ IsOpenTag(htmlFragment[code], "code")
             /\ end # 0
            THEN <<[pre |-> from, code |-> code, end |-> end]>>
                 \o preCodeMatches(htmlFragment, end + 1)
          ELSE preCodeMatches(htmlFragment, from + 1)

\* The value is [html, calls]: the rewritten fragment and the highlighter
\* invocations made.
\* htmlFragment with each match replaced by what the callback returned for it.
replaceMatches(htmlFragment, matches, blocks) ==
  [html |-> Flatten([p \in 1..Len(htmlFragment) |->
                       IF \E i \in 1..Len(matches) : matches[i].pre = p
                         THEN blocks[CHOOSE i \in 1..Len(matches) : matches[i].pre = p].html
                       ELSE IF \E i \in 1..Len(matches) :
                                 matches[i].pre < p /\ p <= matches[i].end
                         THEN <<>>
                       ELSE <<htmlFragment[p]>>]),
   calls |-> Flatten([i \in 1..Len(matches) |-> blocks[i].calls])]

\* The callback on each of the matches.
enhanceMatches(htmlFragment, matches, options, highlighter) ==
  replaceMatches(htmlFragment, matches,
                 [i \in 1..Len(matches) |->
                    enhanceCodeBlock(
                      htmlFragment[matches[i].pre],
                      SubSeq(htmlFragment, matches[i].pre + 1, matches[i].code - 1),
                      htmlFragment[matches[i].code],
                      SubSeq(htmlFragment, matches[i].code + 1, matches[i].end - 1),
                      htmlFragment[matches[i].end], options, highlighter)])

enhanceCodeBlocks(htmlFragment, options, highlighter) ==
  enhanceMatches(htmlFragment, preCodeMatches(htmlFragment, 1), options, highlighter)

\* existingClasses.split(/\s+/).includes(options.codeBlockCodeClassName) : one
\* of the class tokens is the whole option string.
includesClassName(tokens, className) ==
  \E i \in 1..Len(tokens) : wordText(tokens[i]) = valueText(className)

\* The callback of enhanceInlineCode on one <code ...> tag, once its
\* language is detected.
enhanceInlineCodeTag(codeOpen, options, language, enhancedCode) ==
  IF includesClassName(split(OrElse(parseAttributes(codeOpen, "class"), <<>>)),
                       options.codeBlockCodeClassName)
    THEN codeOpen
  ELSE IF language = None \/ language = Some("") THEN enhancedCode
  ELSE addOrUpdateAttribute(enhancedCode, options.dataCodeLangAttribute,
                            <<W(normalizeLanguageForReport(language[1]))>>)

enhanceInlineCode(htmlFragment, options) ==
  [i \in 1..Len(htmlFragment) |->
     IF ~IsOpenTag(htmlFragment[i], "code") THEN htmlFragment[i]
     ELSE enhanceInlineCodeTag(htmlFragment[i], options,
                               detectCodeLanguageFromOpenTag(htmlFragment[i]),
                               addClasses(htmlFragment[i], split(options.inlineCodeClassName)))]

\* normalizePreBlocks, enhanceCodeBlocks and enhanceInlineCode in the order
\* renderQtiItemForReport applies them.  The value is [html, calls].
inlinePass(withCodeBlocks, resolved) ==
  [html |-> enhanceInlineCode(withCodeBlocks.html, resolved),
   calls |-> withCodeBlocks.calls]

reportPasses(wrappedHtml, resolved) ==
  inlinePass(enhanceCodeBlocks(normalizePreBlocks(wrappedHtml), resolved,
                               resolved.codeHighlighter),
             resolved)

---------------------------------------------------------------------------
(* Report entry point *)

RECURSIVE Pow10(_)
Pow10(k) == IF k = 0 THEN 1 ELSE 10 * Pow10(k - 1)

RECURSIVE lowestTerms(_)
lowestTerms(d) ==
  IF d.e > 0 /\ d.n % 10 = 0 THEN lowestTerms([n |-> d.n \div 10, e |-> d.e - 1]) ELSE d

\* sum + criterion.points on decimals
addPoints(a, b) ==
  LET e == Max(a.e, b.e)
  IN lowestTerms([n |-> a.n * Pow10(e - a.e) + b.n * Pow10(e - b.e), e |-> e])

RECURSIVE sumPoints(_)
sumPoints(criteria) ==
  IF criteria = <<>> THEN Zero
  ELSE addPoints(sumPoints(SubSeq(criteria, 1, Len(criteria) - 1)),
                 criteria[Len(criteria)].points)

ReportError(error, expected, found) ==
  [kind |-> "error", error |-> error, expected |-> expected, found |-> found]

\* A plausible slip: the identifier is compared before it is looked for.
reportChecksMismatchFirst(xml, expectedIdentifier) ==
  LET identifier == OrElse(getAttribute(xml.root[1], "identifier"), <<>>)
  IN IF hasParseError(xml) THEN "XML parse failed"
     ELSE IF identifier # expectedIdentifier THEN "identifier mismatch"
     ELSE IF identifier = <<>> THEN "identifier missing"
     ELSE IF getElementsByLocalName(xml.root[1], <<>>, "qti-item-body") = <<>>
       THEN "qti-item-body not found"
     ELSE "ok"

\* The checks of renderQtiItemForReport in their order: the error thrown, or "ok".
reportChecks(xml, expectedIdentifier) ==
  LET identifier == OrElse(getAttribute(xml.root[1], "identifier"), <<>>)
  IN IF hasParseError(xml) THEN "XML parse failed"
     ELSE IF identifier = <<>> THEN "identifier missing"
     ELSE IF identifier # expectedIdentifier THEN "identifier mismatch"
     ELSE IF getElementsByLocalName(xml.root[1], <<>>, "qti-item-body") = <<>>
       THEN "qti-item-body not found"
     ELSE "ok"

\* The object renderQtiItemForReport returns, of its parts.
reportRecord(identifier, title, passes, rubricCriteria, choices) ==
  [ret |-> [kind |-> "ok",
            identifier |-> identifier,
            title |-> title,
            questionHtml |-> passes.html,
            rubricCriteria |-> rubricCriteria,
            itemMaxScore |-> sumPoints(rubricCriteria),
            choices |-> choices],
   calls |-> passes.calls]

\* renderQtiItemForReport behind its checks: itemBody is the qti-item-body.
reportItem(root, expectedIdentifier, itemBody, resolved) ==
  reportRecord(
    OrElse(getAttribute(root, "identifier"), <<>>),
    OrElse(getAttribute(root, "title"), expectedIdentifier),
    reportPasses(
      <<Open("div", <<Attr("class", resolved.itemBodyWrapperClassName)>>)>>
      \o Flatten([i \in 1..Len(NodeAt(root, itemBody).kids) |->
                    renderNodeForReport(root, itemBody \o <<i>>, resolved, FALSE, FALSE)])
      \o <<Close("div")>>,
      resolved),
    extractRubricCriteria(root, itemBody),
    extractChoices(root, itemBody))

\* The value is [ret, calls]: what the call returns or throws, and the
\* highlighter invocations it made.
reportRender(xml, expectedIdentifier, resolved) ==
  LET checked == reportChecks(xml, expectedIdentifier)
  IN IF checked # "ok"
       THEN [ret |-> ReportError(checked, expectedIdentifier,
                                 IF checked = "identifier mismatch"
                                   THEN OrElse(getAttribute(xml.root[1], "identifier"), <<>>)
                                 ELSE <<>>),
             calls |-> <<>>]
     ELSE
       reportItem(xml.root[1], expectedIdentifier,
                  getElementsByLocalName(xml.root[1], <<>>, "qti-item-body")[1], resolved)

\* Item bodies with code: inline, in a pre, behind text or a blank in a pre,
\* several in one pre, and the ways a code element declares its language.
MaxCodes == 2

CodeAttrs ==
  {<<>>,
   <<Attr("class", <<PW("language", "xml")>>)>>,
   <<Attr("class", <<W("note"), PW("lang", "JS")>>)>>,
   <<Attr("data-lang", <<W("XML")>>)>>,
   <<Attr("data-code-lang", <<W("plaintext")>>), Attr("xmlns", <<W("urn:x")>>)>>}

Code(attrs, chars) == El("qti-code", attrs, <<T(chars)>>)

Pre(attrs, kids) == El("qti-pre", attrs, kids)

Codes == {Code(a, <<"a", "<", "'">>) : a \in CodeAttrs}

CodeBlocks ==
  {Pre(<<>>, <<T(<<"t">>)>>), El("qti-p", <<>>, <<T(<<"t">>), TEI>>)}
  \cup UNION {{Pre(<<>>, <<c>>),
               Pre(<<Attr("class", <<W("code-block")>>)>>, <<T(<<" ">>), c, TEI>>),
               El("qti-p", <<>>, <<c>>)} : c \in Codes}
  \cup {Pre(<<>>, <<T(<<"x">>), c>> \o [i \in 1..n |-> Code(<<>>, <<"y">>)]) :
          c \in Codes, n \in 0..(MaxCodes - 1)}

InlineCode == El("qti-p", <<>>, <<Code(<<>>, <<"z">>)>>)

CodeDocs ==
  {StdDoc(<<b>>) : b \in CodeBlocks}
  \cup {StdDoc(<<b, InlineCode>>) : b \in CodeBlocks}
  \cup {StdDoc(<<InlineCode, b>>) : b \in CodeBlocks}

ReportOptions ==
  {NoOptions}
  \cup {[codeHighlighter |-> Some(h)] : h \in {"css", "wrap", "empty"}}
  \cup {[codeBlockCodeClassName |-> <<W("code-block-code"), W("hljs-code")>>],
        [inlineCodeClassName |-> <<W("code-inline"), W("hl")>>,
         dataCodeLangAttribute |-> "data-x",
         codeHighlighter |-> Some("wrap")]}

ExpectedIdentifiers == {<<>>, Str("item-1"), Str("item-2")}

ReportCalls ==
  {<<xml, expected, NoOptions>> : xml \in RootDocs, expected \in ExpectedIdentifiers}
  \cup {<<xml, Str("item-1"), options>> : xml \in CodeDocs, options \in ReportOptions}

renderQtiItemForReport ==
  /\ pc = "idle"
  /\ \E c \in ReportCalls :
       \E r \in {reportRender(c[1], c[2], resolveOptions(defaultReportOptions, c[3]))} :
         /\ call' = [op |-> "renderQtiItemForReport", xml |-> c[1],
                     expectedIdentifier |-> c[2], options |-> c[3]]
         /\ result' = r.ret
         /\ log' = r.calls
  /\ pc' = "done"
  /\ UNCHANGED <<heap, frames>>

SpecReport == Init /\ [][renderQtiItemForReport]_vars

---------------------------------------------------------------------------
(* Properties of the report render *)

ReportDone == pc = "done" /\ call.op = "renderQtiItemForReport"

ReportRoot == call.xml.root[1]

ReportParseFailed == call.xml.root = <<>> \/ ReportRoot.name = "parsererror"

\* The values of the root's identifier attribute: none when it is absent.
ReportIdentifier == AttrValues(ReportRoot, "identifier")

IdentifierMissing == ReportIdentifier \subseteq {<<>>}

ReportBodyMissing ==
  \A i \in 1..Len(descendants(ReportRoot, <<>>)) :
    NodeAt(ReportRoot, descendants(ReportRoot, <<>>)[i]).name # "qti-item-body"

\* C5: renderQtiItemForReport checks, in this order, that the XML parsed,
\* that the root has a non-empty identifier, that the identifier is the
\* expected one and that there is an item-body; the first check that fails
\* decides the error thrown (identifier missing and identifier mismatch are
\* different errors) and a record is returned only when all four pass.
C5_ReportValidation ==
  ReportDone
    => IF ReportParseFailed
         THEN result.kind = "error" /\ result.error = "XML parse failed"
       ELSE IF IdentifierMissing
         THEN result.kind = "error" /\ result.error = "identifier missing"
       ELSE IF call.expectedIdentifier \notin ReportIdentifier
         THEN /\ result.kind = "error" /\ result.error = "identifier mismatch"
              /\ result.expected = call.expectedIdentifier
              /\ result.found \in ReportIdentifier
       ELSE IF ReportBodyMissing
         THEN result.kind = "error" /\ result.error = "qti-item-body not found"
       ELSE result.kind = "ok" /\ result.identifier = call.expectedIdentifier

\* No identifier attribute, an expected identifier and no item-body either:
\* the error is the missing identifier.
C5_Witness ==
  /\ ReportDone
  /\ ~ReportParseFailed
  /\ ReportIdentifier = {}
  /\ call.expectedIdentifier = <<<<"", "item-1">>>>
  /\ ReportBodyMissing
  /\ result.kind = "error" /\ result.error = "identifier missing"

\* An identifier other than the expected one, and no item-body.
C5_WitnessMismatch ==
  /\ ReportDone
  /\ ~ReportParseFailed
  /\ ReportIdentifier = {<<<<"", "item-2">>>>}
  /\ call.expectedIdentifier = <<<<"", "item-1">>>>
  /\ ReportBodyMissing
  /\ result.kind = "error" /\ result.error = "identifier mismatch"

ReportOk == ReportDone /\ result.kind = "ok"

ReportResolved == resolveOptions(defaultReportOptions, call.options)

\* The pre and code open tags of a fragment, in document order.
PreCodeTags(html) == SelectSeq(html, LAMBDA t : t.k = "open" /\ t.v \in {"pre", "code"})

\* The code open tags that open the code of a pre block.
BlockCodeTags(html) ==
  {i \in 1..Len(html) :
     /\ html[i].k = "open" /\ html[i].v = "code"
     /\ \E p \in 1..(i - 1) :
          /\ html[p].k = "open" /\ html[p].v = "pre"
          /\ \A j \in (p + 1)..(i - 1) : html[j].k = "ch" /\ html[j].v \in {" ", "\n", "\r", "\t"}}

AttrCount(t, name) == Cardinality({a \in 1..Len(t.attrs) : t.attrs[a].name = name})

ClassWords(t) ==
  Flatten([a \in 1..Len(t.attrs) |->
             IF t.attrs[a].name = "class" THEN t.attrs[a].val ELSE <<>>])

Occurrences(words, w) == Cardinality({i \in 1..Len(words) : words[i] = w})

ConfiguredTokens ==
  {ReportResolved.codeBlockClassName[i] : i \in 1..Len(ReportResolved.codeBlockClassName)}
  \cup {ReportResolved.codeBlockCodeClassName[i] :
          i \in 1..Len(ReportResolved.codeBlockCodeClassName)}
  \cup {ReportResolved.inlineCodeClassName[i] :
          i \in 1..Len(ReportResolved.inlineCodeClassName)}

InlineTokens ==
  {ReportResolved.inlineCodeClassName[i] : i \in 1..Len(ReportResolved.inlineCodeClassName)}

SecondRun == reportPasses(result.questionHtml, ReportResolved).html

\* C10: when the three passes run again on the questionHtml they produced,
\* every pre and code open tag carries each configured class token at most
\* once and the language attribute it had after the first run (exactly one
\* on the tags of a code block), and no code tag of a pre block carries the
\* inline-code class.
C10_PassesIdempotent ==
  ReportOk
    => LET first == PreCodeTags(result.questionHtml)
           second == PreCodeTags(SecondRun)
           lang == ReportResolved.dataCodeLangAttribute
       IN /\ Len(second) = Len(first)
          /\ \A i \in 1..Len(second) :
               /\ AttrCount(second[i], "class") <= 1
               /\ \A w \in ConfiguredTokens : Occurrences(ClassWords(second[i]), w) <= 1
               /\ AttrCount(second[i], lang) <= 1
               /\ AttrCount(second[i], lang) = AttrCount(first[i], lang)
               /\ getAttribute(second[i], lang) = getAttribute(first[i], lang)
          /\ \A i \in BlockCodeTags(SecondRun) :
               /\ AttrCount(SecondRun[i], lang) = 1
               /\ \A w \in InlineTokens : Occurrences(ClassWords(SecondRun[i]), w) = 0

---------------------------------------------------------------------------
(* Properties of the code block enhancement *)

IsCodeElement(node) == node.type = "el" /\ node.name \in {"qti-code", "code"}

\* The pre elements of the document that hold a code element, in document order.
PreCodeElements(root) ==
  SelectSeq(descendants(root, <<>>),
            LAMBDA p : /\ NodeAt(root, p).name \in {"qti-pre", "pre"}
                       /\ \E i \in 1..Len(descendants(root, p)) :
                            IsCodeElement(NodeAt(root, descendants(root, p)[i])))

\* The first code element below the pre element at p.
FirstCodeElement(root, p) ==
  NodeAt(root, SelectSeq(descendants(root, p),
                         LAMBDA c : IsCodeElement(NodeAt(root, c)))[1])

\* The language a code element declares: the value of its first data-lang,
\* data-language or data-code-lang attribute, else what follows "language-"
\* or "lang-" in the first such class token, else none.
DeclaredLanguage(el) ==
  LET data == SelectSeq(<<"data-lang", "data-language", "data-code-lang">>,
                        LAMBDA n : getAttribute(el, n) # None)
      tokens == SelectSeq(OrElse(getAttribute(el, "class"), <<>>),
                          LAMBDA w : w[1] \in {"language", "lang"})
  IN IF data # <<>> THEN Some(valueText(getAttribute(el, data[1])[1]))
     ELSE IF tokens # <<>> THEN Some(tokens[1][2])
     ELSE None

\* The language names with their aliases resolved, in lower case.
AliasNormalized(language) ==
  CASE toLowerCase(language) = "xml" -> "html"
    [] toLowerCase(language) = "plaintext" -> "plain"
    [] OTHER -> toLowerCase(language)

\* The pre/code blocks of a fragment: the positions of the pre open tag, the
\* code open tag and the code close tag of each.
BlocksOf(html) == preCodeMatches(html, 1)

ContentOf(html, block) == SubSeq(html, block.code + 1, block.end - 1)

HasTokens(t, className) ==
  \A i \in 1..Len(className) : Occurrences(ClassWords(t), className[i]) >= 1

\* What the same call returns with no highlighter configured: its blocks hold
\* the original code text.
WithoutHighlighter ==
  reportRender(call.xml, call.expectedIdentifier,
               [ReportResolved EXCEPT !.codeHighlighter = None]).ret.questionHtml

HighlighterConfigured == ReportOk /\ ReportResolved.codeHighlighter # None

C11_WitnessEmpty ==
  /\ HighlighterConfigured
  /\ ReportResolved.codeHighlighter = Some("empty")
  /\ Len(log) >= 1
  /\ log[1].explicitLanguage = None
  /\ ContentOf(result.questionHtml, BlocksOf(result.questionHtml)[1])
       = ContentOf(WithoutHighlighter, BlocksOf(WithoutHighlighter)[1])
  /\ getAttribute(result.questionHtml[BlocksOf(result.questionHtml)[1].pre],
                  ReportResolved.dataCodeLangAttribute) = Some(<<W("html")>>)

---------------------------------------------------------------------------
(* Renders in progress at the same time *)

\* A render is in progress from its call to its return.  The steps at which
\* renders can take turns are the two statements of the
\* qti-text-entry-interaction case: ++blankCounter.value, and the call of
\* options.blankRenderer (which may itself start a render and wait for it);
\* everything between two such steps reads the render's own locals only.
Renders == {"first", "second"}

\* A plausible slip: one counter object for all renders, reset when a render
\* begins.
sharedBlankCounter(objects) ==
  [ref |-> 1,
   heap |-> IF objects = <<>> THEN <<newBlankCounter.counter>>
            ELSE [objects EXCEPT ![1] = newBlankCounter.counter]]

\* const blankCounter = { value: 0 } : a new object.
allocateBlankCounter(objects) ==
  [ref |-> Len(objects) + 1, heap |-> Append(objects, newBlankCounter.counter)]

IsBlankOutput(t) == t.k = "void" /\ t.v = "input"

\* The fragment whose blanks, in order, are what the blank renderer returned
\* for the given indices.
withIndices(html, options, indices) ==
  [p \in 1..Len(html) |->
     IF IsBlankOutput(html[p])
       THEN blankRenderer(options, indices[Cardinality({q \in 1..p : IsBlankOutput(html[q])})])[1]
     ELSE html[p]]

\* The text-entry-interactions a render comes to, in the order it comes to
\* them, for the prompt and for the explanation.
Visits(xml, options) ==
  [prompt |-> [i \in 1..Len(scoringRender(xml, options).promptCalls) |->
                 scoringRender(xml, options).promptCalls[i].el],
   explanation |-> [i \in 1..Len(scoringRender(xml, options).explanationCalls) |->
                      scoringRender(xml, options).explanationCalls[i].el]]

\* The record a render returns, the blank renderer having been called with
\* the given indices.
recordOf(ret, options, promptIndices, explanationIndices) ==
  [ret EXCEPT
     !.promptHtml = withIndices(@, options, promptIndices),
     !.candidateExplanationHtml =
        IF @ = None THEN None ELSE Some(withIndices(@[1], options, explanationIndices))]

Explanation(blanks) ==
  El("qti-modal-feedback", <<Attr("identifier", Str("EXPLANATION"))>>,
     <<El("qti-content-body", <<>>, <<T(<<"E">>)>> \o blanks)>>)

InterleavedDocs ==
  {Doc(Item(StdAttrs, <<>>)),
   StdDoc(<<TEI>>),
   StdDoc(<<El("qti-p", <<>>, <<T(<<"a">>), TEI>>), TEI>>),
   Doc(Item(StdAttrs, <<ItemBody(<<TEI>>), Explanation(<<TEI>>)>>))}

InterleavedCalls ==
  {<<xml, NoOptions>> : xml \in InterleavedDocs}
  \cup {<<StdDoc(<<TEI>>), [blankRenderer |-> "custom"]>>}

NoFrame == [phase |-> "none"]

InitRenders ==
  /\ pc = [r \in Renders |-> "idle"]
  /\ call = [r \in Renders |-> [op |-> "none"]]
  /\ result = [r \in Renders |-> [kind |-> "none"]]
  /\ log = <<>>
  /\ heap = <<>>
  /\ frames = [r \in Renders |-> NoFrame]

\* renderQtiItemForScoring up to the rendering of the item-body's children:
\* the checks, and the new blank counter.
startRender(r, xml, options, resolved, checked, counter) ==
  /\ call' = [call EXCEPT ![r] = [op |-> "renderQtiItemForScoring",
                                  xml |-> xml, options |-> options]]
  /\ IF checked.kind = "error"
       THEN /\ pc' = [pc EXCEPT ![r] = "done"]
            /\ result' = [result EXCEPT ![r] = checked]
            /\ UNCHANGED <<heap, frames>>
     ELSE /\ pc' = [pc EXCEPT ![r] = "increment"]
          /\ heap' = counter.heap
          /\ frames' = [frames EXCEPT ![r] =
                          [phase |-> "promptHtml",
                           blankCounter |-> counter.ref,
                           todo |-> Visits(xml, resolved).prompt,
                           idx |-> 0,
                           promptIndices |-> <<>>,
                           explanationIndices |-> <<>>]]
          /\ UNCHANGED result
  /\ UNCHANGED log

StartRender(r) ==
  /\ pc[r] = "idle"
  /\ \E c \in InterleavedCalls :
       startRender(r, c[1], c[2], resolveOptions(defaultScoringOptions, c[2]),
                   scoringRender(c[1], resolveOptions(defaultScoringOptions, c[2])).ret,
                   allocateBlankCounter(heap))

\* const idx = ++blankCounter.value
IncrementBlankCounter(r) ==
  /\ pc[r] = "increment"
  /\ frames[r].todo # <<>>
  /\ heap' = [heap EXCEPT ![frames[r].blankCounter] = nextBlankIndex(@)]
  /\ frames' = [frames EXCEPT ![r].idx = nextBlankIndex(heap[frames[r].blankCounter])]
  /\ pc' = [pc EXCEPT ![r] = "blankRenderer"]
  /\ UNCHANGED <<call, result, log>>

\* return options.blankRenderer(idx), when the callback has returned.
CallBlankRenderer(r) ==
  /\ pc[r] = "blankRenderer"
  /\ log' = Append(log, [fn |-> "blankRenderer", render |-> r,
                         index |-> frames[r].idx, el |-> Head(frames[r].todo),
                         during |-> frames[r].phase])
  /\ frames' = [frames EXCEPT
                  ![r].todo = Tail(@),
                  ![r].idx = 0,
                  ![r].promptIndices =
                     IF frames[r].phase = "promptHtml" THEN Append(@, frames[r].idx) ELSE @,
                  ![r].explanationIndices =
                     IF frames[r].phase = "promptHtml" THEN @ ELSE Append(@, frames[r].idx)]
  /\ pc' = [pc EXCEPT ![r] = "increment"]
  /\ UNCHANGED <<call, result, heap>>

\* parseCandidateExplanation, up to the rendering of the explanation's nodes:
\* a blank counter of its own when there is an explanation to render.
beginExplanation(r, resolved, counter) ==
  /\ heap' = counter.heap
  /\ frames' = [frames EXCEPT
                  ![r].phase = "candidateExplanationHtml",
                  ![r].blankCounter = counter.ref,
                  ![r].todo = Visits(call[r].xml, resolved).explanation]

RenderExplanation(r) ==
  /\ pc[r] = "increment"
  /\ frames[r].phase = "promptHtml"
  /\ frames[r].todo = <<>>
  /\ beginExplanation(r, resolveOptions(defaultScoringOptions, call[r].options),
                      IF scoringRender(call[r].xml,
                                       resolveOptions(defaultScoringOptions, call[r].options)
                                      ).ret.candidateExplanationHtml = None
                        THEN [ref |-> frames[r].blankCounter, heap |-> heap]
                      ELSE allocateBlankCounter(heap))
  /\ UNCHANGED <<pc, call, result, log>>

\* return { identifier, title, promptHtml, ... }
ReturnRecord(r) ==
  /\ pc[r] = "increment"
  /\ frames[r].phase = "candidateExplanationHtml"
  /\ frames[r].todo = <<>>
  /\ result' = [result EXCEPT ![r] =
                  recordOf(scoringRender(call[r].xml,
                                         resolveOptions(defaultScoringOptions,
                                                        call[r].options)).ret,
                           resolveOptions(defaultScoringOptions, call[r].options),
                           frames[r].promptIndices, frames[r].explanationIndices)]
  /\ pc' = [pc EXCEPT ![r] = "done"]
  /\ frames' = [frames EXCEPT ![r] = NoFrame]
  /\ UNCHANGED <<call, log, heap>>

NextRender ==
  \E r \in Renders :
    \/ StartRender(r)
    \/ IncrementBlankCounter(r)
    \/ CallBlankRenderer(r)
    \/ RenderExplanation(r)
    \/ ReturnRecord(r)

SpecInterleaved == InitRenders /\ [][NextRender]_vars

---------------------------------------------------------------------------
(* Properties of renders in progress at the same time *)

Alone(r) ==
  scoringRender(call[r].xml, resolveOptions(defaultScoringOptions, call[r].options))

LogOf(r, during) ==
  SelectSeq(log, LAMBDA e : e.render = r /\ e.during = during)

\* C12: whatever the order in which the steps of the renders in progress are
\* taken, a render that has returned handed the blank renderer the indices it
\* hands it when run alone and returned the record it returns when run alone;
\* so two renders of the same input return the same record.
C12_CounterPerRender ==
  /\ \A r \in Renders :
       pc[r] = "done"
         => /\ result[r] = Alone(r).ret
            /\ IndicesOf(LogOf(r, "promptHtml")) = IndicesOf(Alone(r).promptCalls)
            /\ IndicesOf(LogOf(r, "candidateExplanationHtml"))
                 = IndicesOf(Alone(r).explanationCalls)
  /\ \A r \in Renders, s \in Renders :
       pc[r] = "done" /\ pc[s] = "done" /\ call[r] = call[s] => result[r] = result[s]

\* Two renders of two blanks each have returned, and their blank renderer
\* calls took turns.
C12_Witness ==
  /\ \A r \in Renders : pc[r] = "done" /\ result[r].kind = "ok"
  /\ Len(log) = 4
  /\ log[1].render = "first" /\ log[2].render = "second"
  /\ log[3].render = "first" /\ log[4].render = "second"
  /\ log[1].index = 1 /\ log[2].index = 1

\* One render has begun and returned while the other was between a blank
\* renderer call and the next, as a render called from the blank renderer does.
C12_WitnessNested ==
  /\ pc["first"] = "blankRenderer"
  /\ frames["first"].idx = 2
  /\ pc["second"] = "done"
  /\ result["second"].kind = "ok"
  /\ Len(log) = 3
  /\ log[1].render = "first" /\ log[2].render = "second" /\ log[3].render = "second"

---------------------------------------------------------------------------
(* Properties of the scoring render's element rules *)

\* The tree with nothing left below its rubric-blocks.
RECURSIVE withEmptyRubricBlocks(_)
withEmptyRubricBlocks(node) ==
  IF node.type = "text" THEN node
  ELSE IF node.name = "qti-rubric-block" THEN [node EXCEPT !.kids = <<>>]
  ELSE [node EXCEPT !.kids = [i \in 1..Len(node.kids) |-> withEmptyRubricBlocks(node.kids[i])]]

ScoringResolved == resolveOptions(defaultScoringOptions, call.options)

\* C13: nothing below a rubric-block contributes to promptHtml, wherever the
\* rubric-block is: the prompt is the prompt of the same document with every
\* rubric-block emptied.
C13_RubricSuppressed ==
  ScoringOk
    => result.promptHtml
         = scoringRender(Doc(withEmptyRubricBlocks(CallRoot)), ScoringResolved).ret.promptHtml

\* The position of the close tag that ends the element opened at position p.
RECURSIVE closeOf(_, _, _)
closeOf(html, p, depth) ==
  IF p > Len(html) THEN 0
  ELSE IF html[p].k = "open" THEN closeOf(html, p + 1, depth + 1)
  ELSE IF html[p].k = "close"
    THEN IF depth = 1 THEN p ELSE closeOf(html, p + 1, depth - 1)
  ELSE closeOf(html, p + 1, depth)

PreTags(html) == {p \in 1..Len(html) : html[p].k = "open" /\ html[p].v = "pre"}

BlanksWithin(html, p) ==
  {q \in (p + 1)..(closeOf(html, p, 0) - 1) : IsBlankOutput(html[q])}

\* C14: every <pre> of promptHtml carries the configured pre-with-blanks
\* class when a blank is rendered inside it, and no class attribute when none
\* is.
C14_PreMarkerClass ==
  ScoringOk
    => \A p \in PreTags(result.promptHtml) :
         IF BlanksWithin(result.promptHtml, p) # {}
           THEN getAttribute(result.promptHtml[p], "class")
                  = Some(ScoringResolved.preWithBlanksClassName)
         ELSE result.promptHtml[p].attrs = <<>>

\* The item-body is one pre whose element children are blanks and code
\* elements that hold text only.
BodyPre == CallItemBody \o <<1>>

PreOfCode ==
  /\ ScoringOk
  /\ Len(NodeAt(CallRoot, CallItemBody).kids) = 1
  /\ NodeAt(CallRoot, BodyPre).name = "qti-pre"
  /\ \A i \in 1..Len(NodeAt(CallRoot, BodyPre).kids) :
       LET kid == NodeAt(CallRoot, BodyPre).kids[i]
       IN kid.type = "el"
            => \/ kid.name = "qti-text-entry-interaction"
               \/ /\ kid.name = "qti-code"
                  /\ \A j \in 1..Len(kid.kids) : kid.kids[j].type = "text"

\* The pre's children that are not white-space-only text, in order.
Significant ==
  SelectSeq(NodeAt(CallRoot, BodyPre).kids,
            LAMBDA kid : kid.type = "el"
                         \/ \E j \in 1..Len(kid.text) : ~IsSpace(kid.text[j]))

CodeChildren == {i \in 1..Len(Significant) : Significant[i].name = "qti-code"}

BlankBefore(i) == i > 1 /\ Significant[i - 1].name = "qti-text-entry-interaction"

BlankAfter(i) ==
  i < Len(Significant) /\ Significant[i + 1].name = "qti-text-entry-interaction"

\* The lengths of the white space runs a text begins and ends with.
LeadingRun(text) ==
  CHOOSE n \in 0..Len(text) :
    /\ \A j \in 1..n : IsSpace(text[j])
    /\ n < Len(text) => ~IsSpace(text[n + 1])

TrailingRun(text) ==
  CHOOSE n \in 0..Len(text) :
    /\ \A j \in (Len(text) - n + 1)..Len(text) : IsSpace(text[j])
    /\ n < Len(text) => ~IsSpace(text[Len(text) - n])

NoLineBreak(text, from, to) == \A j \in from..to : text[j] \notin {"\n", "\r"}

LosesLeading(i) ==
  /\ BlankBefore(i)
  /\ NoLineBreak(textContent(Significant[i]), 1, LeadingRun(textContent(Significant[i])))

LosesTrailing(i) ==
  LET text == textContent(Significant[i])
  IN /\ BlankAfter(i)
     /\ NoLineBreak(text, Len(text) - TrailingRun(text) + 1, Len(text))

\* The text of the code child with the runs it loses taken off.
ExpectedCodeText(i) ==
  LET text == textContent(Significant[i])
  IN SubSeq(text,
            IF LosesLeading(i) THEN LeadingRun(text) + 1 ELSE 1,
            IF LosesTrailing(i) THEN Len(text) - TrailingRun(text) ELSE Len(text))

\* What is between the k-th <code> of the prompt and its </code>.
RenderedCode(k) ==
  LET html == result.promptHtml
      opens == SelectSeq([p \in 1..Len(html) |-> p],
                         LAMBDA p : html[p].k = "open" /\ html[p].v = "code")
  IN SubSeq(html, opens[k] + 1, closeOf(html, opens[k], 0) - 1)

\* The position among the code children of the i-th significant child.
CodeRank(i) == Cardinality({j \in CodeChildren : j <= i})

\* C15: a code child of a pre is rendered with its text as it is, except
\* that the white space run the text begins with is dropped when the child
\* before it (white-space-only text not counted) is a blank and the run holds
\* no line feed or carriage return, and likewise the run it ends with when
\* the child after it is a blank.
C15_CodeTrim ==
  PreOfCode
    => \A i \in CodeChildren :
         RenderedCode(CodeRank(i)) = Chars(escapeHtml(ExpectedCodeText(i)))

\* A code child between two blanks lost both runs, and one beside it kept a
\* run with a line break in it.
C15_Witness ==
  /\ PreOfCode
  /\ \E i \in CodeChildren :
       /\ LosesLeading(i) /\ LosesTrailing(i)
       /\ LeadingRun(textContent(Significant[i])) > 0
       /\ TrailingRun(textContent(Significant[i])) > 0
       /\ Len(ExpectedCodeText(i)) > 0
       /\ RenderedCode(CodeRank(i)) = Chars(escapeHtml(ExpectedCodeText(i)))
  /\ Len(Significant) = 3

\* A code child after a blank kept the run it begins with, which holds a line
\* feed; and a code child with no blank beside it kept its white space.
C15_WitnessKept ==
  /\ PreOfCode
  /\ \E i \in CodeChildren :
       /\ BlankBefore(i) /\ ~LosesLeading(i)
       /\ RenderedCode(CodeRank(i)) = Chars(textContent(Significant[i]))
  /\ \E i \in CodeChildren :
       /\ ~BlankBefore(i) /\ ~BlankAfter(i)
       /\ LeadingRun(textContent(Significant[i])) > 0
       /\ ~(\E j \in 1..Len(textContent(Significant[i])) :
              textContent(Significant[i])[j] \in {"\n", "\r"})
       /\ RenderedCode(CodeRank(i)) = Chars(textContent(Significant[i]))

---------------------------------------------------------------------------
(* The pre block normalization on its own *)

\* What renderNodeForReport writes inside a pre: text, a blank, code elements
\* with and without attributes, and an element whose name goes on after
\* "code" (the pass's pattern <\/?code\b[^>]*> takes its tags for code tags).
MaxInner == 3

InnerItems ==
  {<<Ch("a")>>,
   <<Ch(" ")>>,
   defaultReportOptions.clozeInputHtml,
   <<Open("code", <<Attr("class", <<PW("language", "xml")>>)>>), Ch("b"), Close("code")>>,
   <<Open("code", <<>>), Ch("c"), Ch("&"), Ch("l"), Ch("t"), Ch(";"), Close("code")>>,
   <<Open("code-x", <<>>), Ch("d"), Close("code-x")>>}

PreOpens == {Open("pre", <<>>), Open("pre", <<Attr("class", <<W("code-block")>>)>>)}

Inners == {Flatten(items) : items \in SeqUpTo(InnerItems, MaxInner)}

\* A fragment with one pre span, with two, and with a pre that is never
\* closed (raw clozeInputHtml can bring one in), which the pattern
\* /<pre\b[^>]*>[\s\S]*?<\/pre>/g cannot match.
Fragments ==
  {<<Open("div", <<>>), o>> \o inner \o <<Close("pre"), Ch("z"), Close("div")>> :
     o \in PreOpens, inner \in Inners}
  \cup {<<Open("pre", <<>>)>> \o inner \o <<Close("pre"), Ch(" ")>>
        \o <<Open("pre", <<>>)>> \o InnerItems2 \o <<Close("pre")>> :
          inner \in Inners, InnerItems2 \in InnerItems}
  \cup {<<Open("div", <<>>), Open("pre", <<>>)>> \o inner \o <<Close("div")>> :
          inner \in Inners}

NormalizePreBlocks ==
  /\ pc = "idle"
  /\ \E htmlFragment \in Fragments :
       /\ call' = [op |-> "normalizePreBlocks", htmlFragment |-> htmlFragment]
       /\ result' = [kind |-> "ok", html |-> normalizePreBlocks(htmlFragment)]
  /\ log' = log
  /\ pc' = "done"
  /\ UNCHANGED <<heap, frames>>

SpecNormalize == Init /\ [][NormalizePreBlocks]_vars

---------------------------------------------------------------------------
(* Properties of the pre block normalization *)

NormalizeDone == pc = "done" /\ call.op = "normalizePreBlocks"

\* The <pre ...>...</pre> spans of a fragment from position from on: each
\* goes from a pre open tag to the first </pre> behind it, and the next is
\* looked for behind that.
RECURSIVE PreSpans(_, _)
PreSpans(html, from) ==
  LET opens == {p \in from..Len(html) :
                  /\ IsOpenTag(html[p], "pre")
                  /\ \E e \in (p + 1)..Len(html) : html[e] = Close("pre")}
  IN IF opens = {} THEN <<>>
     ELSE LET p == CHOOSE p \in opens : \A q \in opens : p <= q
              e == CHOOSE e \in (p + 1)..Len(html) :
                     /\ html[e] = Close("pre")
                     /\ \A d \in (p + 1)..(e - 1) : html[d] # Close("pre")
          IN <<[from |-> p, to |-> e]>> \o PreSpans(html, e + 1)

\* What lies between the k-th span and the next (before the first, for k = 0;
\* behind the last, for k the number of spans).
Gap(html, spans, k) ==
  SubSeq(html,
         IF k = 0 THEN 1 ELSE spans[k].to + 1,
         IF k = Len(spans) THEN Len(html) ELSE spans[k + 1].from - 1)

SpanOf(html, span) == SubSeq(html, span.from, span.to)

CodeTags(block) == SelectSeq(block, LAMBDA t : IsCodeTag(t))

CodeOpenTags(block) == SelectSeq(block, LAMBDA t : IsOpenTag(t, "code"))

CodeCloseTags(block) == SelectSeq(block, LAMBDA t : IsCodeTag(t) /\ t.k = "close")

C16_WitnessUnmatched ==
  /\ NormalizeDone
  /\ PreSpans(call.htmlFragment, 1) = <<>>
  /\ Len(CodeOpenTags(call.htmlFragment)) = 2
  /\ result.html = call.htmlFragment

---------------------------------------------------------------------------
(* Properties of the inline code enhancement *)

\* The fragment the inline pass is given: the wrapped item body after
\* normalizePreBlocks and enhanceCodeBlocks.
AfterBlockPass ==
  LET itemBody == getElementsByLocalName(ReportRoot, <<>>, "qti-item-body")[1]
      wrapped ==
        <<Open("div", <<Attr("class", ReportResolved.itemBodyWrapperClassName)>>)>>
        \o Flatten([i \in 1..Len(NodeAt(ReportRoot, itemBody).kids) |->
                      renderNodeForReport(ReportRoot, itemBody \o <<i>>,
                                          ReportResolved, FALSE, FALSE)])
        \o <<Close("div")>>
  IN enhanceCodeBlocks(normalizePreBlocks(wrapped), ReportResolved,
                       ReportResolved.codeHighlighter).html

\* The code open tags the block pass has enhanced: the code tag of each
\* pre/code block.
BlockEnhanced(html) == {BlocksOf(html)[k].code : k \in 1..Len(BlocksOf(html))}

\* C17: the inline pass changes nothing but code open tags.  A code open tag
\* that the block pass enhanced is exactly as the block pass left it,
\* whatever codeBlockCodeClassName is.  Every other code open tag carries the
\* inline-code class tokens and, when its attributes declare a language, that
\* language, alias-normalized, as the data-code-lang attribute.
C17_InlinePassSkipsBlocks ==
  ReportOk
    => LET before == AfterBlockPass
           after == result.questionHtml
           lang == ReportResolved.dataCodeLangAttribute
       IN /\ Len(after) = Len(before)
          /\ \A i \in 1..Len(before) :
               IF ~(before[i].k = "open" /\ before[i].v = "code")
                 THEN after[i] = before[i]
               ELSE IF i \in BlockEnhanced(before)
                 THEN after[i] = before[i]
               ELSE /\ HasTokens(after[i], ReportResolved.inlineCodeClassName)
                    /\ DeclaredLanguage(before[i]) # None
                         => getAttribute(after[i], lang)
                              = Some(<<W(AliasNormalized(DeclaredLanguage(before[i])[1]))>>)

---------------------------------------------------------------------------
(* Escaping and entity decoding on their own *)

\* Strings over the characters escapeHtml replaces and a letter.
MaxText == 3

TextAlphabet == {"&", "<", ">", "\"", "'", "a"}

Texts == SeqUpTo(TextAlphabet, MaxText)

\* A text node's value is written by escapeHtml (renderNodeForReport) and
\* read back from the rendered fragment by decodeXmlEntities
\* (enhanceCodeBlocks).
DecodeEscaped ==
  /\ pc = "idle"
  /\ \E value \in Texts :
       /\ call' = [op |-> "decodeXmlEntities", value |-> value]
       /\ result' = [kind |-> "ok", html |-> decodeXmlEntities(Chars(escapeHtml(value)))]
  /\ log' = log
  /\ pc' = "done"
  /\ UNCHANGED <<heap, frames>>

SpecDecode == Init /\ [][DecodeEscaped]_vars

---------------------------------------------------------------------------
(* Properties of escaping and entity decoding *)

\* C18: for every string s over & < > " ' and letters,
\* decodeXmlEntities(escapeHtml(s)) is s.
C18_DecodeInvertsEscape ==
  (pc = "done" /\ call.op = "decodeXmlEntities") => result.html = Chars(call.value)

---------------------------------------------------------------------------
(* All entry points *)

Next ==
  \/ renderQtiItemForScoring
  \/ renderQtiItemForReport
  \/ applyResponsesToPromptHtml
  \/ rewriteHtmlImageSources

Spec == Init /\ [][Next]_vars

====
